---- MODULE Spec2Model ----
(***************************************************************************)
(* Verification model of next-markdown-middleware: the SSRF validator, the *)
(* header allow-list extractor, URL resolution and the two request         *)
(* pipelines (handleMarkdownRequest, createMarkdownHandler).               *)
(*                                                                         *)
(* JavaScript strings are modelled as sequences of one-character strings,  *)
(* so that split, slice, indexOf, trim and toLowerCase are computed and    *)
(* not assumed.  null / undefined is the one-element sequence Null, whose  *)
(* element is not a character.                                             *)
(***************************************************************************)
EXTENDS Integers, Sequences, FiniteSets, TLC

VARIABLES
  entry,                   \* the exported function this run exercises
  vUrl, vReq, vOut,        \* validateInternalRequest called on its own
  hReq, hFwd, hOut,        \* extractSafeHeaders called on its own
  inbound,                 \* the NextRequest: headers and nextUrl.pathname
  routeParams,             \* the route handler's params
  opts,                    \* MarkdownMiddlewareOptions / MarkdownRouteHandlerOptions
  pc,                      \* position of the invocation
  targetUrl,               \* originalUrl / new URL(targetUrl)
  validation,              \* result of validateInternalRequest
  outHeaders,              \* headers / safeHeaders
  fetchLog,                \* calls of fetch: URL and headers
  timer,                   \* the setTimeout that aborts the fetch
  upstream,                \* the upstream response once it has arrived
  result,                  \* what the invocation returned
  calls,                   \* response.text, convertHtmlToMarkdown, onError, timers
  xGiven, xConfig, xLog,   \* shouldExcludePath called repeatedly on one options object
  middlewareOut,           \* what the function made by createMarkdownMiddleware returned
  abHtml, abBaseUrl, abOut, \* addBaseTag called on its own
  turndownServiceInstance, \* converter.ts: the cached default TurndownService
  services,                \* every TurndownService constructed so far
  tasks,                   \* concurrent invocations that end in a conversion
  convLog                  \* calls of convertHtmlToMarkdown and resetTurndownService

varsValidate == <<vUrl, vReq, vOut>>
varsExtract == <<hReq, hFwd, hOut>>
varsExclude == <<xGiven, xConfig, xLog>>
varsBase == <<abHtml, abBaseUrl, abOut>>
varsConvert == <<turndownServiceInstance, services, tasks, convLog>>
varsRest == <<varsExclude, middlewareOut, varsBase, varsConvert>>
varsInput == <<entry, inbound, routeParams, opts>>
varsRun == <<pc, targetUrl, validation, outHeaders, fetchLog, timer, upstream,
             result, calls>>
vars == <<entry, vUrl, vReq, vOut, hReq, hFwd, hOut, inbound, routeParams, opts,
          pc, targetUrl, validation, outHeaders, fetchLog, timer, upstream,
          result, calls, varsRest>>

(***************************************************************************)
(* String primitives (ECMAScript String.prototype)                         *)
(***************************************************************************)
Null == << "<null>" >>

Truthy(s) == s # Null /\ s # << >>

UpperChars == <<"A","B","C","D","E","F","G","H","I","J","K","L","M",
                "N","O","P","Q","R","S","T","U","V","W","X","Y","Z">>
LowerChars == <<"a","b","c","d","e","f","g","h","i","j","k","l","m",
                "n","o","p","q","r","s","t","u","v","w","x","y","z">>
DigitChars == {"0","1","2","3","4","5","6","7","8","9"}

ToLowerChar(c) ==
  IF \E i \in 1..26 : UpperChars[i] = c
    THEN LowerChars[CHOOSE i \in 1..26 : UpperChars[i] = c]
    ELSE c

toLowerCase(s) == [i \in 1..Len(s) |-> ToLowerChar(s[i])]

startsWith(s, p) == Len(s) >= Len(p) /\ SubSeq(s, 1, Len(p)) = p

endsWith(s, p) == Len(s) >= Len(p) /\ SubSeq(s, Len(s) - Len(p) + 1, Len(s)) = p

\* String.prototype.indexOf for a one-character needle; 0-based, -1 if absent
indexOf(s, c) ==
  IF \E i \in 1..Len(s) : s[i] = c
    THEN (CHOOSE i \in 1..Len(s) : s[i] = c /\ \A j \in 1..(i-1) : s[j] # c) - 1
    ELSE -1

\* String.prototype.slice(from, to) with 0-based non-negative indices
slice(s, from, to) == SubSeq(s, from + 1, to)

\* s.split(c)[0]
splitFirst(s, c) == IF indexOf(s, c) = -1 THEN s ELSE slice(s, 0, indexOf(s, c))

includes(s, p) ==
  \E i \in 1..(Len(s) - Len(p) + 1) : SubSeq(s, i, i + Len(p) - 1) = p

WhiteSpace == {" ", "\t"}

RECURSIVE trimStart(_)
trimStart(s) ==
  IF s # << >> /\ Head(s) \in WhiteSpace THEN trimStart(Tail(s)) ELSE s

RECURSIVE trimEnd(_)
trimEnd(s) ==
  IF s # << >> /\ s[Len(s)] \in WhiteSpace
    THEN trimEnd(SubSeq(s, 1, Len(s) - 1)) ELSE s

trim(s) == trimEnd(trimStart(s))

(***************************************************************************)
(* String literals of the source                                           *)
(***************************************************************************)
S_localhost == <<"l","o","c","a","l","h","o","s","t">>
S_127_0_0_1 == <<"1","2","7",".","0",".","0",".","1">>
S_v6loopback == <<":",":","1">>
S_MissingHost == <<"M","i","s","s","i","n","g"," ","H","o","s","t"," ","h","e","a","d","e","r">>
S_ExternalPrefix == <<"E","x","t","e","r","n","a","l"," ","U","R","L"," ","n","o","t"," ","a","l","l","o","w","e","d",":"," ">>
S_user_agent == <<"u","s","e","r","-","a","g","e","n","t">>
S_accept_language == <<"a","c","c","e","p","t","-","l","a","n","g","u","a","g","e">>
S_accept_encoding == <<"a","c","c","e","p","t","-","e","n","c","o","d","i","n","g">>
S_accept == <<"a","c","c","e","p","t">>
S_referer == <<"r","e","f","e","r","e","r">>
S_origin == <<"o","r","i","g","i","n">>
S_host == <<"h","o","s","t">>
S_x_forwarded_proto == <<"x","-","f","o","r","w","a","r","d","e","d","-","p","r","o","t","o">>
S_https == <<"h","t","t","p","s">>
S_http == <<"h","t","t","p">>

(***************************************************************************)
(* Fetch API Headers: names are byte-lower-cased by every operation, a     *)
(* header set is a function from lower-cased names to values               *)
(***************************************************************************)
EmptyHeaders == [n \in {} |-> << >>]

HeadersGet(h, name) ==
  IF toLowerCase(name) \in DOMAIN h THEN h[toLowerCase(name)] ELSE Null

HeadersSet(h, name, value) ==
  [n \in DOMAIN h \cup {toLowerCase(name)} |->
     IF n = toLowerCase(name) THEN value ELSE h[n]]

(***************************************************************************)
(* utils.ts                                                                *)
(***************************************************************************)
SAFE_HEADERS == <<S_user_agent, S_accept_language, S_accept_encoding,
                  S_accept, S_referer, S_origin>>

SafeHeaderSet == {SAFE_HEADERS[i] : i \in 1..Len(SAFE_HEADERS)}

\* utils.ts 52-62: the Host header with the port removed
requestHostnameOf(requestHost) ==
  IF startsWith(requestHost, <<"[">>)
    THEN IF indexOf(requestHost, "]") # -1
           THEN slice(requestHost, 1, indexOf(requestHost, "]"))
           ELSE requestHost
    ELSE splitFirst(requestHost, ":")

isLocalhost_prefix(urlHostname, requestHostname) ==
  \/ startsWith(urlHostname, S_localhost)
  \/ urlHostname = S_127_0_0_1
  \/ urlHostname = S_v6loopback
  \/ urlHostname = requestHostname

\* utils.ts 66-70
isLocalhost(urlHostname, requestHostname) ==
  \/ urlHostname = S_localhost
  \/ urlHostname = S_127_0_0_1
  \/ urlHostname = S_v6loopback
  \/ urlHostname = requestHostname

Valid == [isValid |-> TRUE, error |-> Null]
Invalid(msg) == [isValid |-> FALSE, error |-> msg]

validateInternalRequest_relativeNeedsHost(url, request) ==
  LET requestHost == HeadersGet(request.headers, S_host) IN
  IF ~Truthy(requestHost) THEN Invalid(S_MissingHost)
  ELSE IF ~Truthy(url.hostname) THEN Valid
  ELSE IF ~isLocalhost(url.hostname, requestHostnameOf(requestHost))
      THEN Invalid(S_ExternalPrefix \o url.hostname)
      ELSE Valid

\* utils.ts 32-80
validateInternalRequest(url, request) ==
  IF ~Truthy(url.hostname) THEN Valid
  ELSE LET requestHost == HeadersGet(request.headers, S_host) IN
    IF ~Truthy(requestHost) THEN Invalid(S_MissingHost)
    ELSE IF ~isLocalhost(url.hostname, requestHostnameOf(requestHost))
      THEN Invalid(S_ExternalPrefix \o url.hostname)
      ELSE Valid


RECURSIVE forwardLoop(_, _, _)
\* utils.ts 104-112: the loop over forwardHeaders
forwardLoop(request, names, headers) ==
  IF names = << >> THEN headers
  ELSE LET headerName == Head(names)
           lowerName == toLowerCase(headerName)
           value == HeadersGet(request.headers, headerName)
       IN forwardLoop(request, Tail(names),
            IF lowerName \in SafeHeaderSet /\ Truthy(value)
              THEN HeadersSet(headers, headerName, value)
              ELSE headers)

RECURSIVE forwardLoop_unchecked(_, _, _)
forwardLoop_unchecked(request, names, headers) ==
  IF names = << >> THEN headers
  ELSE LET headerName == Head(names)
           value == HeadersGet(request.headers, headerName)
       IN forwardLoop_unchecked(request, Tail(names),
            IF Truthy(value)
              THEN HeadersSet(headers, headerName, value)
              ELSE headers)

RECURSIVE safeLoop(_, _, _)
\* utils.ts 115-120: the loop over SAFE_HEADERS
safeLoop(request, names, headers) ==
  IF names = << >> THEN headers
  ELSE LET headerName == Head(names)
           value == HeadersGet(request.headers, headerName)
       IN safeLoop(request, Tail(names),
            IF Truthy(value)
              THEN HeadersSet(headers, headerName, value)
              ELSE headers)

\* forwardHeaders?: string[] -- given = FALSE is undefined
NoForward == [given |-> FALSE, names |-> << >>]
Forward(names) == [given |-> TRUE, names |-> names]

extractSafeHeaders_noAllowList(request, forwardHeaders) ==
  IF forwardHeaders.given
    THEN forwardLoop_unchecked(request, forwardHeaders.names, EmptyHeaders)
    ELSE safeLoop(request, SAFE_HEADERS, EmptyHeaders)

extractSafeHeaders_defaultsAdded(request, forwardHeaders) ==
  safeLoop(request, SAFE_HEADERS,
           IF forwardHeaders.given
             THEN forwardLoop(request, forwardHeaders.names, EmptyHeaders)
             ELSE EmptyHeaders)

\* utils.ts 96-124
extractSafeHeaders(request, forwardHeaders) ==
  IF forwardHeaders.given
    THEN forwardLoop(request, forwardHeaders.names, EmptyHeaders)
    ELSE safeLoop(request, SAFE_HEADERS, EmptyHeaders)


(***************************************************************************)
(* WHATWG URL: new URL(input) and new URL(input, base).                    *)
(* Modelled: leading/trailing space stripping, scheme parsing and          *)
(* lower-casing, special schemes skipping any run of slashes before the    *)
(* authority, userinfo, host lower-casing for special schemes, IPv6        *)
(* literals kept in brackets, forbidden host code points, port digits and  *)
(* default-port elision, scheme-relative ("//host") references.            *)
(* Not modelled: percent-encoding, IDNA, numeric IPv4 normalisation,       *)
(* dot-segment removal, query and fragment, the file scheme's host rules.  *)
(***************************************************************************)
AlphaChars == {UpperChars[i] : i \in 1..26} \cup {LowerChars[i] : i \in 1..26}
HexChars == DigitChars \cup {"a","b","c","d","e","f","A","B","C","D","E","F"}
SchemeChars == AlphaChars \cup DigitChars \cup {"+", "-", "."}
SlashChars == {"/", "\\"}
ForbiddenHostChars ==
  {" ", "#", "/", ":", "<", ">", "?", "@", "[", "\\", "]", "^", "|", "%"}

AllIn(s, set) == \A i \in 1..Len(s) : s[i] \in set

SpecialSchemes == {S_http, S_https, <<"f","t","p">>, <<"w","s">>, <<"w","s","s">>}

DefaultPort(scheme) ==
  IF scheme = S_http \/ scheme = <<"w","s">> THEN <<"8","0">>
  ELSE IF scheme = S_https \/ scheme = <<"w","s","s">> THEN <<"4","4","3">>
  ELSE IF scheme = <<"f","t","p">> THEN <<"2","1">>
  ELSE Null

RECURSIVE stripLeadingZeros(_)
stripLeadingZeros(p) ==
  IF Len(p) > 1 /\ Head(p) = "0" THEN stripLeadingZeros(Tail(p)) ELSE p

BadUrl ==
  [ok |-> FALSE, scheme |-> << >>, hostname |-> << >>, port |-> << >>,
   pathname |-> << >>]

\* index (1-based) of the first character of s that is in set, Len(s)+1 if none
firstOf(s, set) ==
  IF \E i \in 1..Len(s) : s[i] \in set
    THEN CHOOSE i \in 1..Len(s) : s[i] \in set /\ \A j \in 1..(i-1) : s[j] \notin set
    ELSE Len(s) + 1

\* index (1-based) of the last character of s equal to c, 0 if none
lastIndexOf(s, c) ==
  IF \E i \in 1..Len(s) : s[i] = c
    THEN CHOOSE i \in 1..Len(s) : s[i] = c /\ \A j \in (i+1)..Len(s) : s[j] # c
    ELSE 0

RECURSIVE skipSlashes(_)
skipSlashes(s) ==
  IF s # << >> /\ Head(s) \in SlashChars THEN skipSlashes(Tail(s)) ELSE s

\* the path of a URL record: cut at query or fragment
pathOf(s) == SubSeq(s, 1, firstOf(s, {"?", "#"}) - 1)

\* host and port states of the URL parser
parseHostPort(scheme, authority, pathname) ==
  LET special == scheme \in SpecialSchemes
      hostport == SubSeq(authority, lastIndexOf(authority, "@") + 1, Len(authority))
      done(h, p) ==
        IF ~AllIn(p, DigitChars) THEN BadUrl
        ELSE [ok |-> TRUE, scheme |-> scheme, hostname |-> h,
              port |-> IF p = << >> \/ stripLeadingZeros(p) = DefaultPort(scheme)
                         THEN << >> ELSE stripLeadingZeros(p),
              pathname |-> pathname]
  IN
  IF startsWith(hostport, <<"[">>)
    THEN LET cb == indexOf(hostport, "]")
             inner == slice(hostport, 1, cb)
             rest == slice(hostport, cb + 1, Len(hostport))
         IN IF cb = -1 \/ inner = << >> \/ ~AllIn(inner, HexChars \cup {":"})
              THEN BadUrl
            ELSE IF rest = << >>
              THEN done(<<"[">> \o toLowerCase(inner) \o <<"]">>, << >>)
            ELSE IF Head(rest) = ":"
              THEN done(<<"[">> \o toLowerCase(inner) \o <<"]">>, Tail(rest))
            ELSE BadUrl
    ELSE LET c == indexOf(hostport, ":")
             h == IF c = -1 THEN hostport ELSE slice(hostport, 0, c)
             p == IF c = -1 THEN << >> ELSE slice(hostport, c + 1, Len(hostport))
         IN IF h = << >>
              THEN IF special \/ p # << >> THEN BadUrl ELSE done(<< >>, << >>)
            ELSE IF \E i \in 1..Len(h) : h[i] \in ForbiddenHostChars
              THEN BadUrl
            ELSE done(IF special THEN toLowerCase(h) ELSE h, p)

\* new URL(input): an absolute URL string, no base
parseAbsolute(input) ==
  LET s == trim(input)
      c == indexOf(s, ":")
      scheme == toLowerCase(slice(s, 0, c))
      rest == slice(s, c + 1, Len(s))
  IN
  IF c <= 0 \/ s[1] \notin AlphaChars \/ ~AllIn(slice(s, 0, c), SchemeChars)
    THEN BadUrl
  ELSE IF scheme \in SpecialSchemes
    THEN LET r == skipSlashes(rest)
             e == firstOf(r, {"/", "\\", "?", "#"})
             path == pathOf(SubSeq(r, e, Len(r)))
         IN parseHostPort(scheme, SubSeq(r, 1, e - 1),
                          IF path = << >> THEN <<"/">> ELSE path)
  ELSE IF startsWith(rest, <<"/","/">>)
    THEN LET r == SubSeq(rest, 3, Len(rest))
             e == firstOf(r, {"/", "?", "#"})
         IN parseHostPort(scheme, SubSeq(r, 1, e - 1), pathOf(SubSeq(r, e, Len(r))))
  ELSE [ok |-> TRUE, scheme |-> scheme, hostname |-> << >>, port |-> << >>,
        pathname |-> pathOf(rest)]

\* new URL(input, base) for an input without a scheme and a special base
parseWithBase(input, baseString) ==
  LET base == parseAbsolute(baseString)
      s == trim(input)
  IN
  IF ~base.ok THEN BadUrl
  ELSE IF Len(s) >= 2 /\ s[1] \in SlashChars /\ s[2] \in SlashChars
    THEN parseAbsolute(base.scheme \o <<":">> \o s)
  ELSE IF s # << >> /\ s[1] \in SlashChars
    THEN [base EXCEPT !.pathname = pathOf(s)]
  ELSE IF s = << >> THEN base
  ELSE [base EXCEPT !.pathname = <<"/">> \o pathOf(s)]

\* URL.prototype.toString of a URL that has a host
serialize(url) ==
  url.scheme \o <<":","/","/">> \o url.hostname
  \o (IF url.port = << >> THEN << >> ELSE <<":">> \o url.port)
  \o url.pathname

S_md == <<".","m","d">>
S_api == <<"/","a","p","i","/">>
S_localhost_3000 == <<"l","o","c","a","l","h","o","s","t",":","3","0","0","0">>

\* utils.ts 191-196
getOriginalPath(pathname) ==
  IF endsWith(pathname, S_md) THEN slice(pathname, 0, Len(pathname) - 3)
  ELSE pathname

\* utils.ts 215-222: the whitelisted x-forwarded-proto
protocolOf(request) ==
  LET forwardedProto == HeadersGet(request.headers, S_x_forwarded_proto)
      normalizedProto == toLowerCase(trim(forwardedProto))
  IN IF Truthy(forwardedProto)
          /\ (normalizedProto = S_http \/ normalizedProto = S_https)
       THEN normalizedProto
       ELSE S_https

\* utils.ts 210-225
buildAbsoluteUrl(pathname, request) ==
  LET hostHeader == HeadersGet(request.headers, S_host)
      host == IF Truthy(hostHeader) THEN hostHeader ELSE S_localhost
  IN parseWithBase(pathname, protocolOf(request) \o <<":","/","/">> \o host)

\* a pattern of ExcludeOptions.paths: a string, or a RegExp whose source is
\* a literal text, with its g and y flags and its lastIndex property
StringPattern(text) ==
  [isRegExp |-> FALSE, source |-> text, global |-> FALSE, sticky |-> FALSE,
   lastIndex |-> 0]
RegExpPattern(source, global, sticky) ==
  [isRegExp |-> TRUE, source |-> source, global |-> global, sticky |-> sticky,
   lastIndex |-> 0]

matchesAt(s, p, i) == i + Len(p) <= Len(s) /\ SubSeq(s, i + 1, i + Len(p)) = p

\* RegExp.prototype.test (RegExpBuiltinExec): the result and the RegExp after
\* the call; a g or y RegExp starts at lastIndex and stores where it stopped
regExpTest(pattern, s) ==
  LET usesLastIndex == pattern.global \/ pattern.sticky
      from == IF usesLastIndex THEN pattern.lastIndex ELSE 0
      hits == IF pattern.sticky
                THEN {i \in {from} : matchesAt(s, pattern.source, i)}
                ELSE {i \in from..Len(s) : matchesAt(s, pattern.source, i)}
  IN IF from > Len(s) \/ hits = {}
       THEN [result |-> FALSE,
             pattern |-> IF usesLastIndex
                           THEN [pattern EXCEPT !.lastIndex = 0] ELSE pattern]
       ELSE LET i == CHOOSE h \in hits : \A k \in hits : h <= k
            IN [result |-> TRUE,
                pattern |-> IF usesLastIndex
                              THEN [pattern EXCEPT !.lastIndex = i + Len(pattern.source)]
                              ELSE pattern]

RECURSIVE scanPaths(_, _, _)
\* utils.ts 164-176: the loop over options.paths, which stops at the first
\* match; done holds the patterns already tried
scanPaths(pathname, done, paths) ==
  IF paths = << >> THEN [result |-> FALSE, paths |-> done]
  ELSE LET pattern == Head(paths)
           tested == IF pattern.isRegExp
                       THEN regExpTest(pattern, pathname)
                       ELSE [result |-> includes(pathname, pattern.source),
                             pattern |-> pattern]
       IN IF tested.result
            THEN [result |-> TRUE,
                  paths |-> Append(done, tested.pattern) \o Tail(paths)]
            ELSE scanPaths(pathname, Append(done, tested.pattern), Tail(paths))

excludedByPaths(pathname, paths) == scanPaths(pathname, << >>, paths).result

\* ExcludeOptions; given = FALSE is undefined, excludeApiRoutes is
\* "unset", "true" or "false"
NoExclude == [given |-> FALSE, excludeApiRoutes |-> "unset", paths |-> << >>]

\* utils.ts 150-179, with the options object as the call leaves it
shouldExcludePathCall(pathname, exclude) ==
  IF ~exclude.given THEN [result |-> FALSE, options |-> exclude]
  ELSE IF exclude.excludeApiRoutes # "false" /\ startsWith(pathname, S_api)
    THEN [result |-> TRUE, options |-> exclude]
  ELSE LET scan == scanPaths(pathname, << >>, exclude.paths)
       IN [result |-> scan.result,
           options |-> [exclude EXCEPT !.paths = scan.paths]]

\* utils.ts 150-179
shouldExcludePath(pathname, exclude) ==
  shouldExcludePathCall(pathname, exclude).result

RECURSIVE replaceAllChar(_, _, _)
\* String.prototype.replace(/c/g, rep) for a one-character pattern and a
\* replacement without '$'
replaceAllChar(s, c, rep) ==
  IF s = << >> THEN << >>
  ELSE (IF Head(s) = c THEN rep ELSE <<Head(s)>>) \o replaceAllChar(Tail(s), c, rep)

\* utils.ts 235-242
escapeHtmlAttribute(value) ==
  LET amp == replaceAllChar(value, "&", <<"&","a","m","p",";">>)
      lt == replaceAllChar(amp, "<", <<"&","l","t",";">>)
      gt == replaceAllChar(lt, ">", <<"&","g","t",";">>)
      quot == replaceAllChar(gt, "\"", <<"&","q","u","o","t",";">>)
  IN replaceAllChar(quot, "'", <<"&","#","3","9",";">>)

S_base == <<"b","a","s","e">>
S_head == <<"h","e","a","d">>
S_html == <<"h","t","m","l">>

\* /<name[^>]*>/i.exec(html): the first match as 0-based [index, end), index -1
\* when there is none
tagMatch(html, name) ==
  LET open == <<"<">> \o name
      closes(i) == {j \in (i + Len(open) + 1)..Len(html) : html[j] = ">"}
      starts == {i \in 0..(Len(html) - Len(open)) :
                   /\ toLowerCase(SubSeq(html, i + 1, i + Len(open))) = open
                   /\ closes(i) # {}}
  IN IF starts = {} THEN [index |-> -1, end |-> -1]
     ELSE LET i == CHOOSE i \in starts : \A k \in starts : i <= k
          IN [index |-> i,
              end |-> CHOOSE j \in closes(i) : \A k \in closes(i) : j <= k]

\* the character U+0060, which a TLA+ string cannot hold
GRAVE == "GRAVE ACCENT"

RECURSIVE getSubstitution(_, _, _, _)
\* GetSubstitution of String.prototype.replace for a pattern without capture
\* groups: $$ is '$', $& the match, $ with a grave accent the text before
\* it, $' the text after it
getSubstitution(replacement, matched, before, after) ==
  IF replacement = << >> THEN << >>
  ELSE IF /\ Head(replacement) = "$"
          /\ Len(replacement) >= 2
          /\ replacement[2] \in {"$", "&", GRAVE, "'"}
    THEN (CASE replacement[2] = "$" -> <<"$">>
            [] replacement[2] = "&" -> matched
            [] replacement[2] = GRAVE -> before
            [] replacement[2] = "'" -> after)
         \o getSubstitution(SubSeq(replacement, 3, Len(replacement)),
                            matched, before, after)
  ELSE <<Head(replacement)>>
       \o getSubstitution(Tail(replacement), matched, before, after)

\* html.replace(/<name[^>]*>/i, replacement)
replaceTag(html, name, replacement) ==
  LET m == tagMatch(html, name)
      before == SubSeq(html, 1, m.index)
      matched == SubSeq(html, m.index + 1, m.end)
      after == SubSeq(html, m.end + 1, Len(html))
  IN IF m.index = -1 THEN html
     ELSE before \o getSubstitution(replacement, matched, before, after) \o after

\* the template literal <base href="${safeBaseUrl}">
baseTagOf(safeBaseUrl) == <<"<","b","a","s","e"," ","h","r","e","f","=","\"">> \o safeBaseUrl \o <<"\"",">">>

\* utils.ts 256-282
addBaseTag(html, baseUrl) ==
  LET safeBaseUrl == escapeHtmlAttribute(baseUrl)
      baseTag == baseTagOf(safeBaseUrl)
  IN IF tagMatch(html, S_base).index # -1
       THEN replaceTag(html, S_base, baseTag)
     ELSE IF tagMatch(html, S_head).index # -1
       THEN replaceTag(html, S_head, <<"$", "&">> \o baseTag)
     ELSE IF tagMatch(html, S_html).index # -1
       THEN replaceTag(html, S_html,
                       <<"$", "&">> \o <<"<","h","e","a","d",">">> \o baseTag \o <<"<","/","h","e","a","d",">">>)
     ELSE baseTag \o html

(***************************************************************************)
(* converter.ts                                                            *)
(***************************************************************************)
\* converter.ts 20-24: the configuration of the default instance
DefaultTurndownConfig ==
  [headingStyle |-> "atx", codeBlockStyle |-> "fenced", bulletListMarker |-> "-"]

\* options?: TurndownOptions left out
NoTurndownOptions ==
  [given |-> FALSE, headingStyle |-> "undefined", codeBlockStyle |-> "undefined",
   bulletListMarker |-> "undefined"]

\* converter.ts 36-54
createTurndownConfig(options) ==
  [headingStyle |->
     IF options.headingStyle # "undefined" THEN options.headingStyle ELSE "atx",
   codeBlockStyle |->
     IF options.codeBlockStyle # "undefined" THEN options.codeBlockStyle
     ELSE "fenced",
   bulletListMarker |->
     IF options.bulletListMarker # "undefined" THEN options.bulletListMarker
     ELSE "-"]

RECURSIVE stripTags(_, _)
\* the text content of the markup: everything outside '<' ... '>'
stripTags(html, inTag) ==
  IF html = << >> THEN << >>
  ELSE IF inTag THEN stripTags(Tail(html), Head(html) # ">")
  ELSE IF Head(html) = "<" THEN stripTags(Tail(html), TRUE)
  ELSE <<Head(html)>> \o stripTags(Tail(html), FALSE)

\* TurndownService.prototype.turndown for a document whose content is one
\* h1 element: '# text' in atx style, the text underlined with '=' in setext
\* style; the instance is only read
turndown(config, html) ==
  LET text == stripTags(html, FALSE)
  IN IF config.headingStyle = "atx" THEN <<"#", " ">> \o text
     ELSE text \o <<"\n">> \o [i \in 1..Len(text) |-> "="]

\* new TurndownService(config): the heap of instances grows by one
newTurndownService(svcs, config) ==
  [services |-> Append(svcs, config), service |-> Len(svcs) + 1]

getTurndownService_alwaysNew(instance, svcs) ==
  LET made == newTurndownService(svcs, DefaultTurndownConfig)
  IN [instance |-> made.service, services |-> made.services,
      service |-> made.service]

\* converter.ts 18-27; instance 0 is null
getTurndownService(instance, svcs) ==
  IF instance = 0
    THEN LET made == newTurndownService(svcs, DefaultTurndownConfig)
         IN [instance |-> made.service, services |-> made.services,
             service |-> made.service]
    ELSE [instance |-> instance, services |-> svcs, service |-> instance]

convertHtmlToMarkdown_cachesCustom(html, baseUrl, options, instance, svcs) ==
  LET htmlWithBase == addBaseTag(html, baseUrl)
      got == IF options.given
               THEN LET made == newTurndownService(svcs, createTurndownConfig(options))
                    IN [instance |-> made.service, services |-> made.services,
                        service |-> made.service]
               ELSE getTurndownService(instance, svcs)
  IN [instance |-> got.instance, services |-> got.services,
      service |-> got.service,
      markdown |-> turndown(got.services[got.service], htmlWithBase)]

\* converter.ts 64-82: the markdown, the instance used, and the module state
\* after the call
convertHtmlToMarkdown(html, baseUrl, options, instance, svcs) ==
  LET htmlWithBase == addBaseTag(html, baseUrl)
      got == IF options.given
               THEN LET made == newTurndownService(svcs, createTurndownConfig(options))
                    IN [instance |-> instance, services |-> made.services,
                        service |-> made.service]
               ELSE getTurndownService(instance, svcs)
  IN [instance |-> got.instance, services |-> got.services,
      service |-> got.service,
      markdown |-> turndown(got.services[got.service], htmlWithBase)]

RECURSIVE join(_, _)
\* Array.prototype.join
join(parts, sep) ==
  IF parts = << >> THEN << >>
  ELSE IF Len(parts) = 1 THEN Head(parts)
  ELSE Head(parts) \o sep \o join(Tail(parts), sep)

\* app-router.ts 73-77: the target URL string of the route handler
routeTargetString(request, params) ==
  LET path == <<"/">> \o join(params.path, <<"/">>)
      hostHeader == HeadersGet(request.headers, S_host)
      host == IF hostHeader # Null THEN hostHeader ELSE S_localhost_3000
      protoHeader == HeadersGet(request.headers, S_x_forwarded_proto)
      protocol == IF protoHeader # Null THEN protoHeader ELSE S_https
  IN protocol \o <<":","/","/">> \o host \o path

(***************************************************************************)
(* Input domains                                                           *)
(***************************************************************************)
MaxForward == 2

SeqsUpTo(S, n) == UNION {[1..k -> S] : k \in 0..n}

\* every header set over the names in nameSet with values in valueSet
HeaderSetsOver(nameSet, valueSet) ==
  UNION {[sub -> valueSet] : sub \in SUBSET nameSet}

S_example_com == <<"e","x","a","m","p","l","e",".","c","o","m">>
S_malicious_com == <<"m","a","l","i","c","i","o","u","s",".","c","o","m">>
S_localhost_evil == <<"l","o","c","a","l","h","o","s","t",".","e","v","i","l",".","c","o","m">>
S_v6bracketed == <<"[",":",":","1","]">>
S_cookie == <<"c","o","o","k","i","e">>
S_x_custom == <<"x","-","c","u","s","t","o","m","-","h","e","a","d","e","r">>

\* hostnames a WHATWG URL object can carry: lower case, IPv6 in brackets
UrlHostnames ==
  { << >>, S_localhost, S_127_0_0_1, S_v6bracketed, S_example_com,
    S_malicious_com, S_localhost_evil }

\* Host header values; Null is the absent header
HostHeaderValues ==
  { Null, << >>,
    <<"l","o","c","a","l","h","o","s","t",":","3","0","0","0">>,
    S_localhost,
    S_example_com,
    <<"E","x","a","m","p","l","e",".","c","o","m">>,
    <<"e","x","a","m","p","l","e",".","c","o","m",":","8","0","8","0">>,
    <<"1","2","7",".","0",".","0",".","1",":","3","0","0","0">>,
    <<"[",":",":","1","]",":","3","0","0","0">>,
    S_v6bracketed,
    <<"[",":",":","1">>,
    S_malicious_com }

WithHeader(h, name, value) == IF value = Null THEN h ELSE HeadersSet(h, name, value)

MkUrl(scheme, hostname, port, pathname) ==
  [ok |-> TRUE, scheme |-> scheme, hostname |-> hostname, port |-> port,
   pathname |-> pathname]

S_slash_test == <<"/","t","e","s","t">>

ValidateUrls == {MkUrl(S_http, h, << >>, S_slash_test) : h \in UrlHostnames}

ValidateRequests ==
  {[headers |-> WithHeader(EmptyHeaders, S_host, v)] : v \in HostHeaderValues}

NotCalled == [called |-> FALSE]

ExtractNames == {S_user_agent, S_accept_language, S_cookie, S_x_custom}
ExtractValues == { << >>, <<"v"," ","1">> }
ExtractRequests == {[headers |-> h] : h \in HeaderSetsOver(ExtractNames, ExtractValues)}

ForwardNames ==
  { S_user_agent,
    <<"U","s","e","r","-","A","g","e","n","t">>,
    <<"A","C","C","E","P","T","-","L","A","N","G","U","A","G","E">>,
    S_cookie,
    <<"X","-","C","u","s","t","o","m","-","H","e","a","d","e","r">>,
    S_referer }

ForwardLists == {NoForward} \cup {Forward(l) : l \in SeqsUpTo(ForwardNames, MaxForward)}

(***************************************************************************)
(* Inputs of the two pipelines                                             *)
(***************************************************************************)
UNSET == -1

DEFAULT_MAX_REQUEST_SIZE == 10485760
DEFAULT_FETCH_TIMEOUT == 30000
DEFAULT_CACHE_MAX_AGE == 3600

S_text_html == <<"t","e","x","t","/","h","t","m","l">>
S_xhtml == <<"a","p","p","l","i","c","a","t","i","o","n","/","x","h","t","m","l","+","x","m","l">>
S_json == <<"a","p","p","l","i","c","a","t","i","o","n","/","j","s","o","n">>
S_admin == <<"a","d","m","i","n">>

ProtoHeaderValues ==
  { Null, << >>, S_http,
    <<" ","H","T","T","P"," ">>,
    <<"f","t","p">>,
    <<"h","t"," ","t","p">> }

Pathnames ==
  { <<"/","t","e","s","t",".","m","d">>,
    <<"/","t","e","s","t">>,
    <<"/","/","m","a","l","i","c","i","o","u","s",".","c","o","m","/","x",".","m","d">>,
    <<"/","a","p","i","/","t","e","s","t",".","m","d">>,
    <<"/","a","d","m","i","n","/","x",".","m","d">> }

RoutePaths == { << >>, << <<"t","e","s","t">> >>, << <<"a">>, <<"b">> >> }

ExtraHeaders ==
  { EmptyHeaders,
    HeadersSet(HeadersSet(EmptyHeaders, S_user_agent, <<"v"," ","1">>),
               S_cookie, <<"s","i","d">>) }

InboundHeaders ==
  { WithHeader(WithHeader(x, S_host, h), S_x_forwarded_proto, p) :
      h \in HostHeaderValues, p \in ProtoHeaderValues, x \in ExtraHeaders }

\* a same-origin request as the tests build it: Host localhost:3000
PlainHeaders == WithHeader(EmptyHeaders, S_host, S_localhost_3000)

PipelineForward ==
  { NoForward, Forward(<< <<"C","o","o","k","i","e">>, <<"U","s","e","r","-","A","g","e","n","t">> >>) }

ExcludeChoices ==
  { NoExclude,
    [given |-> TRUE, excludeApiRoutes |-> "unset", paths |-> << >>],
    [given |-> TRUE, excludeApiRoutes |-> "false", paths |-> << StringPattern(S_admin) >>] }

OnErrorChoices == {"unset", "null", "response"}

\* options.cache: CacheOptions (enabled, maxAge) / route cache (maxAge, sMaxAge)
NoCache == [given |-> FALSE, enabled |-> FALSE, maxAge |-> UNSET, sMaxAge |-> UNSET]
CacheFor(maxAge) ==
  [given |-> TRUE, enabled |-> TRUE, maxAge |-> maxAge, sMaxAge |-> UNSET]

SmallLimit == 64
ShortTimeout == 5000
ShortMaxAge == 60

MaxRequestSizes == {UNSET, 0, SmallLimit}
FetchTimeouts == {UNSET, 0, ShortTimeout}
CacheChoices == {NoCache, CacheFor(UNSET), CacheFor(0), CacheFor(ShortMaxAge)}

NaN == -1

DigitSeq == <<"0","1","2","3","4","5","6","7","8","9">>
DigitValue(c) == (CHOOSE n \in 1..10 : DigitSeq[n] = c) - 1

RECURSIVE digitsToInt(_, _)
digitsToInt(s, acc) ==
  IF s = << >> \/ Head(s) \notin DigitChars THEN acc
  ELSE digitsToInt(Tail(s), acc * 10 + DigitValue(Head(s)))

\* parseInt(s, 10) on an unsigned input: the leading digits, NaN if none
parseInt10(s) ==
  LET u == trimStart(s)
  IN IF u = << >> \/ Head(u) \notin DigitChars THEN NaN ELSE digitsToInt(u, 0)

\* Number.prototype.toString for a non-negative integer
RECURSIVE toString10(_)
toString10(n) ==
  IF n < 10 THEN << DigitSeq[n + 1] >>
  ELSE toString10(n \div 10) \o << DigitSeq[(n % 10) + 1] >>

S_OK == <<"O","K">>
S_NotFound == <<"N","o","t"," ","F","o","u","n","d">>
S_ServerError == <<"I","n","t","e","r","n","a","l"," ","S","e","r","v","e","r"," ","E","r","r","o","r">>

\* an upstream response: status line, Content-Type, Content-Length, and the
\* body as its length on the wire (bodyBytes) and as html.length after
\* response.text() decoded it (bodyLen, UTF-16 code units)
HtmlResponse(contentLength, bodyBytes, bodyLen) ==
  [status |-> 200, statusText |-> S_OK, contentType |-> S_text_html,
   contentLength |-> contentLength, bodyBytes |-> bodyBytes, bodyLen |-> bodyLen]

\* bodies of plain ASCII: one byte per code unit
AsciiSizes ==
  {0, 1, SmallLimit, SmallLimit + 1,
   DEFAULT_MAX_REQUEST_SIZE, DEFAULT_MAX_REQUEST_SIZE + 1}

HtmlResponses ==
       {HtmlResponse(Null, n, n) : n \in AsciiSizes}
  \cup {HtmlResponse(toString10(n), n, n) : n \in AsciiSizes \ {0, 1}}
  \cup \* Content-Length understated
       {HtmlResponse(<<"1">>, n, n) :
          n \in {SmallLimit + 1, DEFAULT_MAX_REQUEST_SIZE + 1}}
  \cup \* Content-Length not a number
       {HtmlResponse(<<"a","b","c">>, DEFAULT_MAX_REQUEST_SIZE + 1,
                     DEFAULT_MAX_REQUEST_SIZE + 1)}
  \cup \* one two-byte character in the body: a code unit less than bytes
       {HtmlResponse(Null, n + 1, n) : n \in {SmallLimit, DEFAULT_MAX_REQUEST_SIZE}}

OtherResponses ==
  { [status |-> 200, statusText |-> S_OK, contentType |-> S_json,
     contentLength |-> toString10(DEFAULT_MAX_REQUEST_SIZE + 1),
     bodyBytes |-> DEFAULT_MAX_REQUEST_SIZE + 1,
     bodyLen |-> DEFAULT_MAX_REQUEST_SIZE + 1],
    [status |-> 200, statusText |-> S_OK, contentType |-> Null,
     contentLength |-> Null, bodyBytes |-> 9, bodyLen |-> 9],
    [status |-> 404, statusText |-> S_NotFound, contentType |-> S_text_html,
     contentLength |-> Null, bodyBytes |-> 9, bodyLen |-> 9],
    [status |-> 500, statusText |-> S_ServerError, contentType |-> S_json,
     contentLength |-> Null, bodyBytes |-> 2, bodyLen |-> 2] }

Responses == HtmlResponses \cup OtherResponses

NoResponse ==
  [status |-> 0, statusText |-> << >>, contentType |-> Null,
   contentLength |-> Null, bodyBytes |-> 0, bodyLen |-> 0]

\* thrown values: Error objects by name and message
MkError(name, message) == [name |-> name, message |-> message]
InvalidUrlError == MkError("TypeError", <<"I","n","v","a","l","i","d"," ","U","R","L">>)
NetworkError == MkError("Error", <<"N","e","t","w","o","r","k"," ","e","r","r","o","r">>)
BodyError == MkError("TypeError", <<"t","e","r","m","i","n","a","t","e","d">>)
ConvertError == MkError("RangeError", <<"M","a","x","i","m","u","m"," ","c","a","l","l"," ","s","t","a","c","k"," ","s","i","z","e"," ","e","x","c","e","e","d","e","d">>)

S_json_open == <<"{","\"","e","r","r","o","r","\"",":","\"">>
S_json_close == <<"\"","}">>
\* JSON.stringify({ error: message }) for a message that needs no escaping
jsonError(message) == S_json_open \o message \o S_json_close

Pending ==
  [kind |-> "pending", status |-> 0, error |-> Null, via |-> "none",
   body |-> << >>, cacheControl |-> Null,
   responseHeaders |-> EmptyHeaders]
ReturnNull == [Pending EXCEPT !.kind = "null"]
Rejected == [Pending EXCEPT !.kind = "rejected"]
\* new NextResponse(JSON.stringify({ error }), { status })
Respond(status, error) ==
  [kind |-> "response", status |-> status, error |-> error, via |-> "default",
   body |-> jsonError(error), cacheControl |-> Null,
   responseHeaders |-> EmptyHeaders]
\* new NextResponse(text, { status })
RespondText(status, text) ==
  [kind |-> "response", status |-> status, error |-> Null, via |-> "default",
   body |-> text, cacheControl |-> Null,
   responseHeaders |-> EmptyHeaders]
S_markdown == <<"#"," ","m","d">>
\* new NextResponse(markdown, { status: 200, headers })
RespondMarkdown(cacheControl) ==
  [kind |-> "response", status |-> 200, error |-> Null, via |-> "default",
   body |-> S_markdown, cacheControl |-> cacheControl,
   responseHeaders |-> EmptyHeaders]
\* the response the caller's onError hook made
CustomResponse ==
  [kind |-> "response", status |-> 599, error |-> Null, via |-> "onError",
   body |-> <<"C","u","s","t","o","m"," ","E","r","r","o","r">>, cacheControl |-> Null,
   responseHeaders |-> EmptyHeaders]

NoValidation == [called |-> FALSE, url |-> BadUrl, result |-> Valid]

\* calls made by the invocation, besides fetch
NoCalls ==
  [text |-> 0, convertHtmlToMarkdown |-> 0, onError |-> << >>,
   setTimeout |-> << >>, clearTimeout |-> 0]

IdleValidate ==
  /\ vUrl = MkUrl(S_http, << >>, << >>, S_slash_test)
  /\ vReq = [headers |-> EmptyHeaders]
  /\ vOut = NotCalled

IdleExtract ==
  /\ hReq = [headers |-> EmptyHeaders]
  /\ hFwd = NoForward
  /\ hOut = NotCalled

IdleExclude ==
  /\ xGiven = NoExclude
  /\ xConfig = NoExclude
  /\ xLog = << >>

IdleWrapper == middlewareOut = Pending

IdleBase == abHtml = << >> /\ abBaseUrl = << >> /\ abOut = Null

IdleConvert ==
  /\ turndownServiceInstance = 0
  /\ services = << >>
  /\ tasks = << >>
  /\ convLog = << >>

IdleRest == IdleExclude /\ IdleWrapper /\ IdleBase /\ IdleConvert

RunStart ==
  /\ pc = "start"
  /\ targetUrl = BadUrl
  /\ validation = NoValidation
  /\ outHeaders = EmptyHeaders
  /\ fetchLog = << >>
  /\ timer = "none"
  /\ upstream = NoResponse
  /\ result = Pending
  /\ calls = NoCalls

DefaultOptions ==
  [forward |-> NoForward, exclude |-> NoExclude, onError |-> "unset",
   maxRequestSize |-> UNSET, fetchTimeout |-> UNSET, cache |-> NoCache,
   custom |-> << >>]

IdlePipeline ==
  /\ inbound = [headers |-> EmptyHeaders, pathname |-> <<"/">>]
  /\ routeParams = [path |-> << >>]
  /\ opts = DefaultOptions
  /\ RunStart

InitValidate ==
  /\ entry = "validateInternalRequest"
  /\ vUrl \in ValidateUrls
  /\ vReq \in ValidateRequests
  /\ vOut = NotCalled
  /\ IdleExtract
  /\ IdlePipeline
  /\ IdleRest

InitExtract ==
  /\ entry = "extractSafeHeaders"
  /\ hReq \in ExtractRequests
  /\ hFwd \in ForwardLists
  /\ hOut = NotCalled
  /\ IdleValidate
  /\ IdlePipeline
  /\ IdleRest

\* options.headers.custom as Object.entries lists it
CustomHeaderChoices ==
  { << >>,
    << <<<<"X","-","C","u","s","t","o","m">>, <<"v","a","l","u","e">>>> >>,
    << <<<<"C","o","n","t","e","n","t","-","T","y","p","e">>, <<"t","e","x","t","/","p","l","a","i","n">>>> >>,
    << <<<<"X","-","C","u","s","t","o","m">>, <<"v","a","l","u","e">>>>, <<<<"c","a","c","h","e","-","c","o","n","t","r","o","l">>, <<"p","r","i","v","a","t","e">>>> >>,
    << <<<<"X","-","C","u","s","t","o","m">>, <<"v","a","l","u","e">>>>, <<<<"x","-","c","u","s","t","o","m">>, <<"o","t","h","e","r">>>> >> }

\* every request with the routing options, and the plain same-origin request
\* with every setting of the numeric options, of the custom headers, and
\* with an onError hook that throws
MiddlewareInputs ==
       { <<[headers |-> h, pathname |-> p],
           [DefaultOptions EXCEPT !.forward = f, !.exclude = x, !.onError = e]>> :
           h \in InboundHeaders, p \in Pathnames,
           f \in PipelineForward, x \in ExcludeChoices, e \in OnErrorChoices }
  \cup { <<[headers |-> PlainHeaders, pathname |-> <<"/","t","e","s","t",".","m","d">>],
           [DefaultOptions EXCEPT !.onError = e, !.maxRequestSize = m,
                                  !.fetchTimeout = t, !.cache = c]>> :
           e \in OnErrorChoices, m \in MaxRequestSizes, t \in FetchTimeouts,
           c \in CacheChoices }
  \cup { <<[headers |-> PlainHeaders, pathname |-> <<"/","t","e","s","t",".","m","d">>],
           [DefaultOptions EXCEPT !.cache = c, !.custom = k]>> :
           c \in CacheChoices, k \in CustomHeaderChoices }
  \cup { <<[headers |-> PlainHeaders, pathname |-> <<"/","t","e","s","t",".","m","d">>],
           [DefaultOptions EXCEPT !.onError = "throws"]>> }

InitMiddleware ==
  /\ entry = "handleMarkdownRequest"
  /\ \E io \in MiddlewareInputs : inbound = io[1] /\ opts = io[2]
  /\ routeParams = [path |-> << >>]
  /\ RunStart
  /\ IdleValidate
  /\ IdleExtract
  /\ IdleRest

RouteInputs ==
       { <<[headers |-> h, pathname |-> <<"/">>], [path |-> p],
           [DefaultOptions EXCEPT !.forward = f, !.onError = e]>> :
           h \in InboundHeaders, p \in RoutePaths,
           f \in PipelineForward, e \in OnErrorChoices }
  \cup { <<[headers |-> PlainHeaders, pathname |-> <<"/">>],
           [path |-> << <<"t","e","s","t">> >>],
           [DefaultOptions EXCEPT !.onError = e, !.fetchTimeout = t, !.cache = c]>> :
           e \in OnErrorChoices, t \in FetchTimeouts,
           c \in {NoCache, [NoCache EXCEPT !.given = TRUE, !.maxAge = 0]} }

InitRoute ==
  /\ entry = "createMarkdownHandler"
  /\ \E io \in RouteInputs :
       inbound = io[1] /\ routeParams = io[2] /\ opts = io[3]
  /\ RunStart
  /\ IdleValidate
  /\ IdleExtract
  /\ IdleRest

MaxExcludeCalls == 3

S_adm == <<"a","d","m">>
ExcludePathnames == { <<"/","a","d","m","i","n","/","x",".","m","d">>, <<"/","a","p","i","/","t","e","s","t",".","m","d">>, <<"/","t","e","s","t",".","m","d">> }

ExcludePatternLists ==
  { << >>,
    << StringPattern(S_admin) >>,
    << RegExpPattern(S_admin, FALSE, FALSE) >>,
    << RegExpPattern(S_admin, TRUE, FALSE) >>,
    << RegExpPattern(S_admin, FALSE, TRUE) >>,
    << RegExpPattern(<<"/">>, TRUE, TRUE) >>,
    << RegExpPattern(S_adm, TRUE, FALSE), StringPattern(S_admin) >> }

ExcludeConfigs ==
  {NoExclude} \cup
  { [given |-> TRUE, excludeApiRoutes |-> a, paths |-> ps] :
      a \in {"unset", "true", "false"}, ps \in ExcludePatternLists }

InitExclude ==
  /\ entry = "shouldExcludePath"
  /\ xGiven \in ExcludeConfigs
  /\ xConfig = xGiven
  /\ xLog = << >>
  /\ IdleWrapper
  /\ IdleBase
  /\ IdleConvert
  /\ IdleValidate
  /\ IdleExtract
  /\ IdlePipeline

\* createMarkdownMiddleware(options)(request): the plain same-origin request
\* on every path, with the routing options
InitWrapper ==
  /\ entry = "createMarkdownMiddleware"
  /\ inbound \in {[headers |-> PlainHeaders, pathname |-> p] : p \in Pathnames}
  /\ opts \in {[DefaultOptions EXCEPT !.exclude = x, !.onError = e] :
                 x \in ExcludeChoices, e \in OnErrorChoices}
  /\ routeParams = [path |-> << >>]
  /\ RunStart
  /\ IdleValidate
  /\ IdleExtract
  /\ IdleRest

\* addBaseTag(html, baseUrl): documents with and without base, head and html
\* elements, base URLs with the characters escapeHtmlAttribute and
\* String.prototype.replace treat specially
BaseDocuments ==
  { << >>,
    <<"<","p",">","x","<","/","p",">">>,
    <<"<","h","t","m","l",">","<","b","o","d","y",">","x","<","/","b","o","d","y",">","<","/","h","t","m","l",">">>,
    <<"<","h","t","m","l"," ","l","a","n","g","=","\"","e","n","\"",">","<","b","o","d","y",">","x","<","/","b","o","d","y",">","<","/","h","t","m","l",">">>,
    <<"<","h","t","m","l",">","<","h","e","a","d",">","<","t","i","t","l","e",">","T","<","/","t","i","t","l","e",">","<","/","h","e","a","d",">","<","b","o","d","y",">","x","<","/","b","o","d","y",">","<","/","h","t","m","l",">">>,
    <<"<","H","E","A","D",">","<","/","H","E","A","D",">","x">>,
    <<"<","h","e","a","d",">","<","b","a","s","e"," ","h","r","e","f","=","\"","/","o","l","d","/","\"",">","<","/","h","e","a","d",">","x">>,
    <<"<","h","t","m","l",">","<","b","o","d","y",">","<","h","e","a","d","e","r",">","h","<","/","h","e","a","d","e","r",">","x","<","/","b","o","d","y",">","<","/","h","t","m","l",">">>,
    <<"<","p",">","x","<","b","a","s","e","f","o","n","t"," ","s","i","z","e","=","\"","1","\"",">","<","/","p",">">> }

BaseUrls ==
  { <<"h","t","t","p","s",":","/","/","a",".","t","e","s","t","/">>,
    <<"h","t","t","p","s",":","/","/","a",".","t","e","s","t","/","?","q","=","\"","1","\"","&","r","=","<","2",">">>,
    <<"h","t","t","p","s",":","/","/","a",".","t","e","s","t","/","i","t","'","s">>,
    <<"h","t","t","p","s",":","/","/","a",".","t","e","s","t","/","$","&">>,
    <<"h","t","t","p","s",":","/","/","a",".","t","e","s","t","/","$",GRAVE>> }

InitBase ==
  /\ entry = "addBaseTag"
  /\ abHtml \in BaseDocuments
  /\ abBaseUrl \in BaseUrls
  /\ abOut = Null
  /\ IdleExclude
  /\ IdleWrapper
  /\ IdleConvert
  /\ IdleValidate
  /\ IdleExtract
  /\ IdlePipeline

\* concurrent invocations that each fetch, read the body and convert it, with
\* and without turndown options, and resetTurndownService called in between
MaxInvocations == 2
MaxResets == 1

Invocations == 1..MaxInvocations

TurndownOptionChoices ==
  { NoTurndownOptions,
    [NoTurndownOptions EXCEPT !.given = TRUE],
    [NoTurndownOptions EXCEPT !.given = TRUE, !.headingStyle = "setext"] }

S_heading == <<"<","h","1",">","T","<","/","h","1",">">>
S_base_url == <<"h","t","t","p","s",":","/","/","a",".","t","e","s","t","/">>

InitConvert ==
  /\ entry = "convertHtmlToMarkdown"
  /\ turndownServiceInstance = 0
  /\ services = << >>
  /\ tasks \in [Invocations ->
                  {[pc |-> "fetch", options |-> o] : o \in TurndownOptionChoices}]
  /\ convLog = << >>
  /\ IdleExclude
  /\ IdleWrapper
  /\ IdleBase
  /\ IdleValidate
  /\ IdleExtract
  /\ IdlePipeline

Init ==
  \/ InitValidate \/ InitExtract \/ InitMiddleware \/ InitRoute
  \/ InitExclude \/ InitWrapper
  \/ InitBase \/ InitConvert

(***************************************************************************)
(* The exported helpers called on their own                                *)
(***************************************************************************)
CallValidate ==
  /\ entry = "validateInternalRequest"
  /\ ~vOut.called
  /\ vOut' = [called |-> TRUE, result |-> validateInternalRequest(vUrl, vReq)]
  /\ UNCHANGED <<vUrl, vReq, varsExtract, varsRest, varsInput, varsRun>>

CallExtract ==
  /\ entry = "extractSafeHeaders"
  /\ ~hOut.called
  /\ hOut' = [called |-> TRUE, headers |-> extractSafeHeaders(hReq, hFwd)]
  /\ UNCHANGED <<hReq, hFwd, varsValidate, varsRest, varsInput, varsRun>>

\* utils.ts 150-179: one more call on the same options object
CallShouldExclude ==
  /\ entry = "shouldExcludePath"
  /\ Len(xLog) < MaxExcludeCalls
  /\ \E pathname \in ExcludePathnames :
       LET call == shouldExcludePathCall(pathname, xConfig)
       IN /\ xLog' = Append(xLog, [pathname |-> pathname, result |-> call.result])
          /\ xConfig' = call.options
  /\ UNCHANGED <<xGiven, middlewareOut, varsBase, varsConvert, varsValidate, varsExtract, varsInput,
                 varsRun>>

(***************************************************************************)
(* Shared pieces of the two handlers                                       *)
(***************************************************************************)
responseOk(status) == status >= 200 /\ status <= 299

isHtmlType(contentType) ==
  includes(contentType, S_text_html) \/ includes(contentType, S_xhtml)

\* fetch(input): the Request constructor parses the URL string again
fetchCall(urlString, headers) ==
  [url |-> parseAbsolute(urlString), headers |-> headers]

Finish(r) == /\ pc' = "done" /\ result' = r

callOnError_twice(options, error, request, c) ==
  IF options.onError = "unset" THEN c
  ELSE [c EXCEPT !.onError =
          Append(Append(@, [error |-> error, request |-> request]),
                 [error |-> error, request |-> request])]

\* options.onError(error, request), when the hook was supplied
callOnError(options, error, request, c) ==
  IF options.onError = "unset" THEN c
  ELSE [c EXCEPT !.onError = Append(@, [error |-> error, request |-> request])]

callClearTimeout(c) == [c EXCEPT !.clearTimeout = @ + 1]

(***************************************************************************)
(* middleware.ts: handleMarkdownRequest                                    *)
(***************************************************************************)
\* runs of handleMarkdownRequest: called directly, or by the function that
\* createMarkdownMiddleware made
MiddlewareEntries == {"handleMarkdownRequest", "createMarkdownMiddleware"}

\* middleware.ts 163-183: the outer catch, for a thrown Error; a hook that
\* throws inside the catch block rejects the promise of the async function
mwCatch(options, error) ==
  IF options.onError = "response" THEN CustomResponse
  ELSE IF options.onError = "throws" THEN Rejected
  ELSE Respond(500, error.message)

\* middleware.ts 29-39
MwClassify ==
  /\ entry \in MiddlewareEntries /\ pc = "start"
  /\ IF ~endsWith(inbound.pathname, S_md)
          \/ shouldExcludePath(inbound.pathname, opts.exclude)
       THEN Finish(ReturnNull)
       ELSE pc' = "resolve" /\ UNCHANGED result
  /\ UNCHANGED <<varsValidate, varsExtract, varsRest, varsInput, targetUrl, validation,
                 outHeaders, fetchLog, timer, upstream, calls>>

\* middleware.ts 43-44; new URL throws a TypeError on an unparsable base
MwResolve ==
  /\ entry \in MiddlewareEntries /\ pc = "resolve"
  /\ targetUrl' = buildAbsoluteUrl(getOriginalPath(inbound.pathname), inbound)
  /\ IF targetUrl'.ok
       THEN pc' = "validate" /\ UNCHANGED <<result, calls>>
       ELSE /\ Finish(mwCatch(opts, InvalidUrlError))
            /\ calls' = callOnError(opts, InvalidUrlError, inbound, calls)
  /\ UNCHANGED <<varsValidate, varsExtract, varsRest, varsInput, validation, outHeaders,
                 fetchLog, timer, upstream>>

MwValidate_continues ==
  /\ entry \in MiddlewareEntries /\ pc = "validate"
  /\ validation' = [called |-> TRUE, url |-> targetUrl,
                    result |-> validateInternalRequest(targetUrl, inbound)]
  /\ pc' = "extract"
  /\ UNCHANGED <<varsValidate, varsExtract, varsRest, varsInput, targetUrl, outHeaders,
                 fetchLog, timer, upstream, result, calls>>

\* middleware.ts 47-56
MwValidate ==
  /\ entry \in MiddlewareEntries /\ pc = "validate"
  /\ validation' = [called |-> TRUE, url |-> targetUrl,
                    result |-> validateInternalRequest(targetUrl, inbound)]
  /\ IF validation'.result.isValid
       THEN pc' = "extract" /\ UNCHANGED result
       ELSE Finish(Respond(403, validation'.result.error))
  /\ UNCHANGED <<varsValidate, varsExtract, varsRest, varsInput, targetUrl, outHeaders,
                 fetchLog, timer, upstream, calls>>

\* middleware.ts 59-62
MwExtract ==
  /\ entry \in MiddlewareEntries /\ pc = "extract"
  /\ outHeaders' = extractSafeHeaders(inbound, opts.forward)
  /\ pc' = "fetch"
  /\ UNCHANGED <<varsValidate, varsExtract, varsRest, varsInput, targetUrl, validation,
                 fetchLog, timer, upstream, result, calls>>

\* middleware.ts 65: options?.fetchTimeout || DEFAULT_FETCH_TIMEOUT
mwFetchTimeout(options) ==
  IF options.fetchTimeout = UNSET \/ options.fetchTimeout = 0
    THEN DEFAULT_FETCH_TIMEOUT ELSE options.fetchTimeout

\* middleware.ts 65-75: arm the timer, call fetch, suspend
MwFetch ==
  /\ entry \in MiddlewareEntries /\ pc = "fetch"
  /\ timer' = "armed"
  /\ calls' = [calls EXCEPT !.setTimeout = Append(@, mwFetchTimeout(opts))]
  /\ fetchLog' = Append(fetchLog, fetchCall(serialize(targetUrl), outHeaders))
  /\ pc' = "awaitFetch"
  /\ UNCHANGED <<varsValidate, varsExtract, varsRest, varsInput, targetUrl, validation,
                 outHeaders, upstream, result>>

\* middleware.ts 107: options?.maxRequestSize || DEFAULT_MAX_REQUEST_SIZE
mwMaxSize(options) ==
  IF options.maxRequestSize = UNSET \/ options.maxRequestSize = 0
    THEN DEFAULT_MAX_REQUEST_SIZE ELSE options.maxRequestSize

S_NotFoundBody == <<"N","o","t"," ","F","o","u","n","d">>
S_FailedToFetch == <<"F","a","i","l","e","d"," ","t","o"," ","f","e","t","c","h",":"," ">>
S_BadContentType == <<"C","o","n","t","e","n","t","-","T","y","p","e"," ","m","u","s","t"," ","b","e"," ","t","e","x","t","/","h","t","m","l"," ","o","r"," ","a","p","p","l","i","c","a","t","i","o","n","/","x","h","t","m","l","+","x","m","l">>
S_TooLarge == <<"R","e","q","u","e","s","t"," ","E","n","t","i","t","y"," ","T","o","o"," ","L","a","r","g","e">>
S_RequestTimeout == <<"R","e","q","u","e","s","t"," ","T","i","m","e","o","u","t">>

mwGate_typeFirst(response, options) ==
  IF response.status = 404 THEN RespondText(404, S_NotFoundBody)
  ELSE IF ~Truthy(response.contentType) \/ ~isHtmlType(response.contentType)
    THEN RespondText(415, S_BadContentType)
  ELSE IF ~responseOk(response.status)
    THEN RespondText(response.status, S_FailedToFetch \o response.statusText)
  ELSE IF /\ Truthy(response.contentLength)
          /\ parseInt10(response.contentLength) # NaN
          /\ parseInt10(response.contentLength) > mwMaxSize(options)
    THEN RespondText(413, S_TooLarge)
  ELSE Pending

\* middleware.ts 79-113: the checks before the body is read; Pending = passed
mwGate(response, options) ==
  IF response.status = 404 THEN RespondText(404, S_NotFoundBody)
  ELSE IF ~responseOk(response.status)
    THEN RespondText(response.status, S_FailedToFetch \o response.statusText)
  ELSE IF ~Truthy(response.contentType) \/ ~isHtmlType(response.contentType)
    THEN RespondText(415, S_BadContentType)
  ELSE IF /\ Truthy(response.contentLength)
          /\ parseInt10(response.contentLength) # NaN
          /\ parseInt10(response.contentLength) > mwMaxSize(options)
    THEN RespondText(413, S_TooLarge)
  ELSE Pending

\* middleware.ts 71-116: the fetch promise resolves; response.text() is
\* called once the four checks have passed
MwFetchResolves ==
  /\ entry \in MiddlewareEntries /\ pc = "awaitFetch"
  /\ \E response \in Responses :
       /\ upstream' = response
       /\ timer' = "cleared"
       /\ IF mwGate(response, opts) = Pending
            THEN /\ pc' = "awaitBody"
                 /\ calls' = [callClearTimeout(calls) EXCEPT !.text = @ + 1]
                 /\ UNCHANGED result
            ELSE /\ Finish(mwGate(response, opts))
                 /\ calls' = callClearTimeout(calls)
  /\ UNCHANGED <<varsValidate, varsExtract, varsRest, varsInput, targetUrl, validation,
                 outHeaders, fetchLog>>

\* middleware.ts 156-162 then 163-183: fetch rejects with a network error
MwFetchRejects ==
  /\ entry \in MiddlewareEntries /\ pc = "awaitFetch"
  /\ timer' = "cleared"
  /\ Finish(mwCatch(opts, NetworkError))
  /\ calls' = callOnError(opts, NetworkError, inbound, callClearTimeout(calls))
  /\ UNCHANGED <<varsValidate, varsExtract, varsRest, varsInput, targetUrl, validation,
                 outHeaders, fetchLog, upstream>>

S_InternalServerError == <<"I","n","t","e","r","n","a","l"," ","S","e","r","v","e","r"," ","E","r","r","o","r">>

\* middleware.ts 156-162 then 163-183: fetch rejects with a value that is not
\* an Error; the hook is skipped and line 183 answers
MwFetchRejectsValue ==
  /\ entry \in MiddlewareEntries /\ pc = "awaitFetch"
  /\ timer' = "cleared"
  /\ Finish(RespondText(500, S_InternalServerError))
  /\ calls' = callClearTimeout(calls)
  /\ UNCHANGED <<varsValidate, varsExtract, varsRest, varsInput, targetUrl, validation,
                 outHeaders, fetchLog, upstream>>

MwTimerFires_asInternal ==
  /\ entry \in MiddlewareEntries /\ pc = "awaitFetch" /\ timer = "armed"
  /\ timer' = "fired"
  /\ Finish(mwCatch(opts, MkError("AbortError", <<"a","b","o","r","t","e","d">>)))
  /\ calls' = callClearTimeout(calls)
  /\ UNCHANGED <<varsValidate, varsExtract, varsRest, varsInput, targetUrl, validation,
                 outHeaders, fetchLog, upstream>>

\* middleware.ts 67, 156-160: the timer fires, the fetch rejects with AbortError
MwTimerFires ==
  /\ entry \in MiddlewareEntries /\ pc = "awaitFetch" /\ timer = "armed"
  /\ timer' = "fired"
  /\ Finish(RespondText(504, S_RequestTimeout))
  /\ calls' = callClearTimeout(calls)
  /\ UNCHANGED <<varsValidate, varsExtract, varsRest, varsInput, targetUrl, validation,
                 outHeaders, fetchLog, upstream>>

\* middleware.ts 135-143: the Cache-Control header of the 200 response
mwCacheControl(options) ==
  IF options.cache.given /\ options.cache.enabled
    THEN LET maxAge == IF options.cache.maxAge = UNSET \/ options.cache.maxAge = 0
                         THEN 3600 ELSE options.cache.maxAge
         IN <<"p","u","b","l","i","c",","," ","m","a","x","-","a","g","e","=">> \o toString10(maxAge)
              \o <<","," ","s","-","m","a","x","a","g","e","=">> \o toString10(maxAge)
    ELSE <<"n","o","-","c","a","c","h","e",","," ","n","o","-","s","t","o","r","e",","," ","m","u","s","t","-","r","e","v","a","l","i","d","a","t","e">>

S_content_type == <<"c","o","n","t","e","n","t","-","t","y","p","e">>
S_cache_control == <<"c","a","c","h","e","-","c","o","n","t","r","o","l">>
S_text_markdown == <<"t","e","x","t","/","m","a","r","k","d","o","w","n",";"," ","c","h","a","r","s","e","t","=","u","t","f","-","8">>

RECURSIVE setEach(_, _)
\* for (const [key, value] of entries) responseHeaders.set(key, value)
setEach(headers, entries) ==
  IF entries = << >> THEN headers
  ELSE setEach(HeadersSet(headers, Head(entries)[1], Head(entries)[2]),
               Tail(entries))

mwResponseHeaders_customFirst(options) ==
  LET custom == setEach(EmptyHeaders, options.custom)
      typed == HeadersSet(custom, S_content_type, S_text_markdown)
  IN HeadersSet(typed, S_cache_control, mwCacheControl(options))

\* middleware.ts 130-150: responseHeaders
mwResponseHeaders(options) ==
  LET typed == HeadersSet(EmptyHeaders, S_content_type, S_text_markdown)
      cached == HeadersSet(typed, S_cache_control, mwCacheControl(options))
  IN setEach(cached, options.custom)

\* middleware.ts 116-155: the body arrives and is converted
MwBodyRead ==
  /\ entry \in MiddlewareEntries /\ pc = "awaitBody"
  /\ IF upstream.bodyLen > mwMaxSize(opts)
       THEN /\ Finish(RespondText(413, S_TooLarge))
            /\ UNCHANGED calls
       ELSE /\ Finish([RespondMarkdown(mwCacheControl(opts))
                          EXCEPT !.responseHeaders = mwResponseHeaders(opts)])
            /\ calls' = [calls EXCEPT !.convertHtmlToMarkdown = @ + 1]
  /\ UNCHANGED <<varsValidate, varsExtract, varsRest, varsInput, targetUrl, validation,
                 outHeaders, fetchLog, timer, upstream>>

\* middleware.ts 116, 156-162, 163-183: response.text() rejects
MwBodyRejects ==
  /\ entry \in MiddlewareEntries /\ pc = "awaitBody"
  /\ Finish(mwCatch(opts, BodyError))
  /\ calls' = callOnError(opts, BodyError, inbound, callClearTimeout(calls))
  /\ UNCHANGED <<varsValidate, varsExtract, varsRest, varsInput, targetUrl, validation,
                 outHeaders, fetchLog, timer, upstream>>

\* middleware.ts 119-128, 156-162, 163-183: convertHtmlToMarkdown throws
MwConvertThrows ==
  /\ entry \in MiddlewareEntries /\ pc = "awaitBody"
  /\ ~(upstream.bodyLen > mwMaxSize(opts))
  /\ Finish(mwCatch(opts, ConvertError))
  /\ calls' = callOnError(opts, ConvertError, inbound,
                          [callClearTimeout(calls)
                             EXCEPT !.convertHtmlToMarkdown = @ + 1])
  /\ UNCHANGED <<varsValidate, varsExtract, varsRest, varsInput, targetUrl, validation,
                 outHeaders, fetchLog, timer, upstream>>

\* NextResponse.next()
NextResponseNext ==
  [kind |-> "next", status |-> 200, error |-> Null, via |-> "none",
   body |-> << >>, cacheControl |-> Null,
   responseHeaders |-> EmptyHeaders]

MiddlewareReturn_resultOnly ==
  /\ entry = "createMarkdownMiddleware" /\ pc = "done"
  /\ middlewareOut = Pending
  /\ middlewareOut' = result
  /\ UNCHANGED <<varsValidate, varsExtract, varsExclude, varsBase, varsConvert,
                 varsInput, varsRun>>

\* middleware.ts 202-209: return result || NextResponse.next(); a rejection
\* of handleMarkdownRequest passes through the await
MiddlewareReturn ==
  /\ entry = "createMarkdownMiddleware" /\ pc = "done"
  /\ middlewareOut = Pending
  /\ middlewareOut' = IF result.kind = "null" THEN NextResponseNext ELSE result
  /\ UNCHANGED <<varsValidate, varsExtract, varsExclude, varsBase, varsConvert,
                 varsInput, varsRun>>

(***************************************************************************)
(* app-router.ts: the handler made by createMarkdownHandler                *)
(***************************************************************************)
S_default_forward == Forward(<<S_user_agent, S_accept_language>>)

routeForward(options) ==
  IF options.forward.given THEN options.forward ELSE S_default_forward

\* app-router.ts 59: fetchTimeout = DEFAULT_FETCH_TIMEOUT replaces undefined
rtFetchTimeout(options) ==
  IF options.fetchTimeout = UNSET
    THEN DEFAULT_FETCH_TIMEOUT ELSE options.fetchTimeout

S_PageNotFound == <<"P","a","g","e"," ","n","o","t"," ","f","o","u","n","d">>
S_InvalidContentType == <<"I","n","v","a","l","i","d"," ","c","o","n","t","e","n","t"," ","t","y","p","e">>
S_RequestTimeoutRoute == <<"R","e","q","u","e","s","t"," ","t","i","m","e","o","u","t">>
S_ConversionFailed == <<"C","o","n","v","e","r","s","i","o","n"," ","f","a","i","l","e","d">>

\* app-router.ts 136-156: the catch, for a thrown Error that is no AbortError
rtCatch(options, error) ==
  IF options.onError = "response" THEN CustomResponse
  ELSE Respond(500, S_ConversionFailed)

\* app-router.ts 72-80: new URL(targetUrl) is outside the try block
RtResolve ==
  /\ entry = "createMarkdownHandler" /\ pc = "start"
  /\ targetUrl' = parseAbsolute(routeTargetString(inbound, routeParams))
  /\ IF targetUrl'.ok
       THEN pc' = "validate" /\ UNCHANGED result
       ELSE Finish(Rejected)
  /\ UNCHANGED <<varsValidate, varsExtract, varsRest, varsInput, validation, outHeaders,
                 fetchLog, timer, upstream, calls>>

\* app-router.ts 80-86
RtValidate ==
  /\ entry = "createMarkdownHandler" /\ pc = "validate"
  /\ validation' = [called |-> TRUE, url |-> targetUrl,
                    result |-> validateInternalRequest(targetUrl, inbound)]
  /\ IF validation'.result.isValid
       THEN pc' = "extract" /\ UNCHANGED result
       ELSE Finish(Respond(403, validation'.result.error))
  /\ UNCHANGED <<varsValidate, varsExtract, varsRest, varsInput, targetUrl, outHeaders,
                 fetchLog, timer, upstream, calls>>

\* app-router.ts 90-95
RtExtract ==
  /\ entry = "createMarkdownHandler" /\ pc = "extract"
  /\ timer' = "armed"
  /\ calls' = [calls EXCEPT !.setTimeout = Append(@, rtFetchTimeout(opts))]
  /\ outHeaders' = HeadersSet(extractSafeHeaders(inbound, routeForward(opts)),
                              S_accept, S_text_html)
  /\ pc' = "fetch"
  /\ UNCHANGED <<varsValidate, varsExtract, varsRest, varsInput, targetUrl, validation,
                 fetchLog, upstream, result>>

\* app-router.ts 97-100
RtFetch ==
  /\ entry = "createMarkdownHandler" /\ pc = "fetch"
  /\ fetchLog' = Append(fetchLog,
                        fetchCall(routeTargetString(inbound, routeParams), outHeaders))
  /\ pc' = "awaitFetch"
  /\ UNCHANGED <<varsValidate, varsExtract, varsRest, varsInput, targetUrl, validation,
                 outHeaders, timer, upstream, result, calls>>

rtGate_readsFirst(response) ==
  IF ~responseOk(response.status) THEN Respond(response.status, S_PageNotFound)
  ELSE Pending

\* app-router.ts 104-118: the checks before the body is read; Pending = passed
rtGate(response) ==
  IF ~responseOk(response.status) THEN Respond(response.status, S_PageNotFound)
  ELSE IF ~isHtmlType(IF Truthy(response.contentType)
                        THEN response.contentType ELSE << >>)
    THEN Respond(415, S_InvalidContentType)
  ELSE Pending

\* app-router.ts 97-120
RtFetchResolves ==
  /\ entry = "createMarkdownHandler" /\ pc = "awaitFetch"
  /\ \E response \in Responses :
       /\ upstream' = response
       /\ timer' = "cleared"
       /\ IF rtGate(response) = Pending
            THEN /\ pc' = "awaitBody"
                 /\ calls' = [callClearTimeout(calls) EXCEPT !.text = @ + 1]
                 /\ UNCHANGED result
            ELSE /\ Finish(rtGate(response))
                 /\ calls' = callClearTimeout(calls)
  /\ UNCHANGED <<varsValidate, varsExtract, varsRest, varsInput, targetUrl, validation,
                 outHeaders, fetchLog>>

\* app-router.ts 136-156: fetch rejects with a network error; the catch
\* does not clear the timer
RtFetchRejects ==
  /\ entry = "createMarkdownHandler" /\ pc = "awaitFetch"
  /\ Finish(rtCatch(opts, NetworkError))
  /\ calls' = callOnError(opts, NetworkError, inbound, calls)
  /\ UNCHANGED <<varsValidate, varsExtract, varsRest, varsInput, targetUrl, validation,
                 outHeaders, fetchLog, timer, upstream>>

RtTimerFires_hookFirst ==
  /\ entry = "createMarkdownHandler" /\ pc = "awaitFetch" /\ timer = "armed"
  /\ timer' = "fired"
  /\ Finish(IF opts.onError = "response" THEN CustomResponse
            ELSE Respond(504, S_RequestTimeoutRoute))
  /\ calls' = callOnError(opts, MkError("AbortError", <<"a","b","o","r","t","e","d">>),
                          inbound, calls)
  /\ UNCHANGED <<varsValidate, varsExtract, varsRest, varsInput, targetUrl, validation,
                 outHeaders, fetchLog, upstream>>

\* app-router.ts 91, 136-143: the timer fires, the fetch rejects with AbortError
RtTimerFires ==
  /\ entry = "createMarkdownHandler" /\ pc = "awaitFetch" /\ timer = "armed"
  /\ timer' = "fired"
  /\ Finish(Respond(504, S_RequestTimeoutRoute))
  /\ UNCHANGED <<varsValidate, varsExtract, varsRest, varsInput, targetUrl, validation,
                 outHeaders, fetchLog, upstream, calls>>

\* app-router.ts 91: a timer nobody cleared fires after the handler returned
RtTimerFiresLate ==
  /\ entry = "createMarkdownHandler" /\ pc = "done" /\ timer = "armed"
  /\ timer' = "firedLate"
  /\ UNCHANGED <<varsValidate, varsExtract, varsRest, varsInput, pc, targetUrl, validation,
                 outHeaders, fetchLog, upstream, result, calls>>

\* app-router.ts 124-127: the Cache-Control header of the 200 response
rtCacheControl(options) ==
  LET maxAge == IF options.cache.maxAge = UNSET
                  THEN DEFAULT_CACHE_MAX_AGE ELSE options.cache.maxAge
  IN IF options.cache.sMaxAge # UNSET /\ options.cache.sMaxAge # 0
       THEN <<"p","u","b","l","i","c",","," ","m","a","x","-","a","g","e","=">> \o toString10(maxAge)
              \o <<","," ","s","-","m","a","x","a","g","e","=">> \o toString10(options.cache.sMaxAge)
       ELSE <<"p","u","b","l","i","c",","," ","m","a","x","-","a","g","e","=">> \o toString10(maxAge)

\* app-router.ts 120-135
RtBodyRead ==
  /\ entry = "createMarkdownHandler" /\ pc = "awaitBody"
  /\ Finish(RespondMarkdown(rtCacheControl(opts)))
  /\ calls' = [calls EXCEPT !.convertHtmlToMarkdown = @ + 1]
  /\ UNCHANGED <<varsValidate, varsExtract, varsRest, varsInput, targetUrl, validation,
                 outHeaders, fetchLog, timer, upstream>>

\* app-router.ts 120, 136-156: response.text() rejects
RtBodyRejects ==
  /\ entry = "createMarkdownHandler" /\ pc = "awaitBody"
  /\ Finish(rtCatch(opts, BodyError))
  /\ calls' = callOnError(opts, BodyError, inbound, calls)
  /\ UNCHANGED <<varsValidate, varsExtract, varsRest, varsInput, targetUrl, validation,
                 outHeaders, fetchLog, timer, upstream>>

\* app-router.ts 121, 136-156: convertHtmlToMarkdown throws
RtConvertThrows ==
  /\ entry = "createMarkdownHandler" /\ pc = "awaitBody"
  /\ Finish(rtCatch(opts, ConvertError))
  /\ calls' = callOnError(opts, ConvertError, inbound,
                          [calls EXCEPT !.convertHtmlToMarkdown = @ + 1])
  /\ UNCHANGED <<varsValidate, varsExtract, varsRest, varsInput, targetUrl, validation,
                 outHeaders, fetchLog, timer, upstream>>

(***************************************************************************)
(* utils.ts: addBaseTag called on its own                                  *)
(***************************************************************************)
CallAddBaseTag ==
  /\ entry = "addBaseTag"
  /\ abOut = Null
  /\ abOut' = addBaseTag(abHtml, abBaseUrl)
  /\ UNCHANGED <<abHtml, abBaseUrl, varsExclude, middlewareOut, varsConvert,
                 varsValidate, varsExtract, varsInput, varsRun>>

(***************************************************************************)
(* converter.ts: invocations sharing the module's default instance         *)
(***************************************************************************)
varsOutsideConvert ==
  <<varsExclude, middlewareOut, varsBase, varsValidate, varsExtract, varsInput,
    varsRun>>

\* await fetch(...) of invocation i resolves
TaskFetchResolves ==
  /\ entry = "convertHtmlToMarkdown"
  /\ \E i \in DOMAIN tasks :
       /\ tasks[i].pc = "fetch"
       /\ tasks' = [tasks EXCEPT ![i].pc = "body"]
  /\ UNCHANGED <<turndownServiceInstance, services, convLog, varsOutsideConvert>>

\* await response.text() of invocation i resolves and the synchronous
\* convertHtmlToMarkdown(html, baseUrl, options?.turndown) runs to its end
TaskConverts ==
  /\ entry = "convertHtmlToMarkdown"
  /\ \E i \in DOMAIN tasks :
       /\ tasks[i].pc = "body"
       /\ LET call == convertHtmlToMarkdown(S_heading, S_base_url, tasks[i].options,
                                            turndownServiceInstance, services)
          IN /\ turndownServiceInstance' = call.instance
             /\ services' = call.services
             /\ convLog' = Append(convLog,
                  [kind |-> "convert", options |-> tasks[i].options,
                   before |-> turndownServiceInstance, after |-> call.instance,
                   service |-> call.service,
                   constructed |-> Len(call.services) - Len(services),
                   markdown |-> call.markdown])
       /\ tasks' = [tasks EXCEPT ![i].pc = "done"]
  /\ UNCHANGED varsOutsideConvert

resetsIn(log) == Cardinality({k \in 1..Len(log) : log[k].kind = "reset"})

\* converter.ts 94-96
ResetTurndownService ==
  /\ entry = "convertHtmlToMarkdown"
  /\ resetsIn(convLog) < MaxResets
  /\ turndownServiceInstance' = 0
  /\ convLog' = Append(convLog,
       [kind |-> "reset", options |-> NoTurndownOptions,
        before |-> turndownServiceInstance, after |-> 0,
        service |-> 0, constructed |-> 0, markdown |-> << >>])
  /\ UNCHANGED <<services, tasks, varsOutsideConvert>>

Next ==
  \/ CallValidate \/ CallExtract \/ CallShouldExclude
  \/ MwClassify \/ MwResolve \/ MwValidate \/ MwExtract \/ MwFetch
  \/ MwFetchResolves \/ MwFetchRejects \/ MwFetchRejectsValue \/ MwTimerFires
  \/ MwBodyRead \/ MwBodyRejects \/ MwConvertThrows \/ MiddlewareReturn
  \/ CallAddBaseTag
  \/ TaskFetchResolves \/ TaskConverts \/ ResetTurndownService
  \/ RtResolve \/ RtValidate \/ RtExtract \/ RtFetch
  \/ RtFetchResolves \/ RtFetchRejects \/ RtTimerFires \/ RtTimerFiresLate
  \/ RtBodyRead \/ RtBodyRejects \/ RtConvertThrows

Spec == Init /\ [][Next]_vars

(***************************************************************************)
(* Properties                                                              *)
(***************************************************************************)
S_test_md == <<"/","t","e","s","t",".","m","d">>
S_v6_host_3000 == <<"[",":",":","1","]",":","3","0","0","0">>

hostHeaderOf(request) == HeadersGet(request.headers, S_host)

LoopbackNames == {S_localhost, S_127_0_0_1, S_v6loopback}

isExternal(url, request) ==
  /\ url.hostname # << >>
  /\ url.hostname \notin LoopbackNames
  /\ url.hostname # requestHostnameOf(hostHeaderOf(request))

\* C1 as stated: for a target with a non-empty hostname h and a request that
\* carries a Host header, h being none of localhost, 127.0.0.1, ::1 and the
\* request's own hostname gives isValid=false with 'External URL not allowed: h'.
C1_ExternalRejectedAnyHost ==
  (vOut.called /\ hostHeaderOf(vReq) # Null /\ isExternal(vUrl, vReq))
    => vOut.result = Invalid(S_ExternalPrefix \o vUrl.hostname)

\* C1 amended: the same for a request whose Host header is non-empty; with an
\* empty Host header the target is rejected too, as 'Missing Host header'.
C1_ExternalRejected ==
  /\ (vOut.called /\ Truthy(hostHeaderOf(vReq)) /\ isExternal(vUrl, vReq))
       => vOut.result = Invalid(S_ExternalPrefix \o vUrl.hostname)
  /\ (vOut.called /\ hostHeaderOf(vReq) = << >> /\ vUrl.hostname # << >>)
       => vOut.result = Invalid(S_MissingHost)

C1_Witness ==
  /\ vOut.called
  /\ vUrl.hostname = S_malicious_com
  /\ hostHeaderOf(vReq) = S_localhost_3000
  /\ vOut.result = Invalid(S_ExternalPrefix \o S_malicious_com)

\* C2: every fetch that was issued was issued after validateInternalRequest
\* returned isValid=true for the URL that is fetched; a failed validation ends
\* the invocation at once with 403 and no fetch is ever issued in it.
C2_FetchOnlyAfterValidation ==
  /\ \A i \in 1..Len(fetchLog) :
       /\ validation.called
       /\ validation.result.isValid
       /\ fetchLog[i].url = validation.url
  /\ (validation.called /\ ~validation.result.isValid)
       => /\ pc = "done"
          /\ result = Respond(403, validation.result.error)
          /\ fetchLog = << >>

C2_Witness ==
  /\ Len(fetchLog) = 1
  /\ validation.called /\ validation.result.isValid
  /\ fetchLog[1].url = validation.url
  /\ fetchLog[1].url.port = <<"3","0","0","0">>

\* C3: whatever the forward list, extractSafeHeaders returns no header whose
\* lower-cased name is outside the allow-list, and no such header is in the
\* headers of an outbound fetch.
C3_OnlyAllowListed ==
  /\ hOut.called =>
       \A n \in DOMAIN hOut.headers : toLowerCase(n) \in SafeHeaderSet
  /\ \A i \in 1..Len(fetchLog) :
       \A n \in DOMAIN fetchLog[i].headers : toLowerCase(n) \in SafeHeaderSet

C3_Witness ==
  /\ hOut.called
  /\ hFwd.given
  /\ \E i \in 1..Len(hFwd.names) : toLowerCase(hFwd.names[i]) = S_x_custom
  /\ Truthy(HeadersGet(hReq.headers, S_x_custom))
  /\ S_user_agent \in DOMAIN hOut.headers

\* C4: a target URL with an empty hostname is accepted whatever the request's
\* headers are, also without a Host header.
C4_RelativeAccepted ==
  (vOut.called /\ vUrl.hostname = << >>) => vOut.result.isValid

C4_Witness ==
  /\ vOut.called
  /\ vUrl.hostname = << >>
  /\ hostHeaderOf(vReq) = Null
  /\ vOut.result.isValid

\* C5: without a Host header a target with a non-empty hostname is rejected
\* with 'Missing Host header'; handleMarkdownRequest (for an eligible path) and
\* the route handler answer such a request with 403 and never fetch.
C5_MissingHostIs403 ==
  /\ (vOut.called /\ vUrl.hostname # << >> /\ hostHeaderOf(vReq) = Null)
       => vOut.result = Invalid(S_MissingHost)
  /\ (entry \in {"handleMarkdownRequest", "createMarkdownHandler"}
        /\ hostHeaderOf(inbound) = Null)
       => /\ fetchLog = << >>
          /\ (pc = "done" /\ result # ReturnNull)
               => result = Respond(403, S_MissingHost)

\* C6: an eligible request with a Host header and a path that starts with a
\* single '/' is accepted by validateInternalRequest and is not answered 403.
C6_SameOriginAccepted ==
  (/\ entry = "handleMarkdownRequest"
   /\ Truthy(hostHeaderOf(inbound))
   /\ ~startsWith(inbound.pathname, <<"/","/">>))
    => /\ validation.called => validation.result.isValid
       /\ ~(result.kind = "response" /\ result.status = 403)

\* C7: the Host header '[::1]:3000' has the hostname '::1', and a target URL
\* whose host is the IPv6 loopback is accepted by validateInternalRequest, on
\* its own and when it was resolved from that Host header.
C7_IPv6LoopbackAllowed ==
  /\ requestHostnameOf(S_v6_host_3000) = S_v6loopback
  /\ (vOut.called /\ vUrl.hostname = S_v6bracketed /\ Truthy(hostHeaderOf(vReq)))
       => vOut.result.isValid
  /\ (validation.called /\ hostHeaderOf(inbound) = S_v6_host_3000
        /\ validation.url.hostname = S_v6bracketed)
       => validation.result.isValid

\* C8: handleMarkdownRequest answers the request for /test.md that carries
\* Host: example.com with 403 and does not fetch.
C8_ExternalHostRejected ==
  (/\ entry = "handleMarkdownRequest"
   /\ inbound.pathname = S_test_md
   /\ hostHeaderOf(inbound) = S_example_com)
    => /\ fetchLog = << >>
       /\ pc = "done" => (result.kind = "response" /\ result.status = 403)

\* C9: extractSafeHeaders returns exactly the allow-listed headers that the
\* request carries with a non-empty value and that, when a forward list is
\* supplied, the list names in any letter case; values are copied verbatim.
C9_ExactHeaderSet ==
  hOut.called =>
    \A n \in SafeHeaderSet \cup ExtractNames \cup DOMAIN hOut.headers :
      LET expected ==
            /\ n \in SafeHeaderSet
            /\ Truthy(HeadersGet(hReq.headers, n))
            /\ hFwd.given =>
                 \E i \in 1..Len(hFwd.names) : toLowerCase(hFwd.names[i]) = n
      IN /\ (n \in DOMAIN hOut.headers) <=> expected
         /\ expected => hOut.headers[n] = HeadersGet(hReq.headers, n)
         /\ (n \in DOMAIN hOut.headers) => hOut.headers[n] # << >>

C9_Witness ==
  /\ hOut.called
  /\ hFwd = Forward(<< <<"A","C","C","E","P","T","-","L","A","N","G","U","A","G","E">> >>)
  /\ Truthy(HeadersGet(hReq.headers, S_user_agent))
  /\ Truthy(HeadersGet(hReq.headers, S_accept_language))
  /\ DOMAIN hOut.headers = {S_accept_language}

expectedScheme(request) ==
  LET v == HeadersGet(request.headers, S_x_forwarded_proto)
  IN IF v # Null /\ toLowerCase(trim(v)) \in {S_http, S_https}
       THEN toLowerCase(trim(v)) ELSE S_https

\* C10: every target URL that is resolved or fetched has the scheme http or
\* https: the trimmed, lower-cased x-forwarded-proto if that is http or https,
\* else https; in handleMarkdownRequest and in the route handler.
C10_SchemeWhitelisted ==
  /\ targetUrl.ok =>
       /\ targetUrl.scheme \in {S_http, S_https}
       /\ targetUrl.scheme = expectedScheme(inbound)
  /\ \A i \in 1..Len(fetchLog) : fetchLog[i].url.scheme \in {S_http, S_https}

fetchResolved == upstream # NoResponse

ctNotHtml(response) ==
  ~Truthy(response.contentType) \/ ~isHtmlType(response.contentType)

declaredTooLarge(response, limit) ==
  /\ Truthy(response.contentLength)
  /\ parseInt10(response.contentLength) # NaN
  /\ parseInt10(response.contentLength) > limit

returned(status) == pc = "done" /\ result.kind = "response" /\ result.status = status

givenMaxSize(options) ==
  IF options.maxRequestSize = UNSET
    THEN DEFAULT_MAX_REQUEST_SIZE ELSE options.maxRequestSize

upstreamIsHtml == responseOk(upstream.status) /\ ~ctNotHtml(upstream)

\* the invocation ended in the catch block: text() or the conversion threw
threw == pc = "done" /\ (result.via = "onError" \/ result.status = 500)

\* the Content-Length header states the size of the body, or is absent
lengthHonestOrAbsent ==
  \/ upstream.contentLength = Null
  \/ upstream.contentLength = toString10(upstream.bodyBytes)

\* C12: the payload ceiling is exact: for a successful HTML upstream whose
\* size is announced truthfully in Content-Length or not announced at all, a
\* payload of exactly maxRequestSize bytes (10 MiB when unset) is converted
\* and answered 200, and one of maxRequestSize + 1 bytes is answered 413.
C12_CeilingExact ==
  (/\ entry = "handleMarkdownRequest" /\ fetchResolved /\ pc = "done"
   /\ upstreamIsHtml /\ lengthHonestOrAbsent) =>
    /\ upstream.bodyBytes = givenMaxSize(opts) => (returned(200) \/ threw)
    /\ upstream.bodyBytes = givenMaxSize(opts) + 1 => returned(413)

\* the Content-Length header gives no usable bound on the body: absent,
\* not a number, or smaller than the body
lengthUnusable ==
  \/ upstream.contentLength = Null
  \/ parseInt10(upstream.contentLength) = NaN
  \/ parseInt10(upstream.contentLength) < upstream.bodyBytes

\* C13: the ceiling cannot be evaded: when Content-Length is absent,
\* non-numeric or understated and the body really has more than
\* maxRequestSize bytes, handleMarkdownRequest answers 413 once the body is
\* read and never calls convertHtmlToMarkdown.
C13_CeilingNotEvaded ==
  (/\ entry = "handleMarkdownRequest" /\ fetchResolved
   /\ upstreamIsHtml /\ lengthUnusable
   /\ upstream.bodyBytes > givenMaxSize(opts)) =>
    /\ calls.convertHtmlToMarkdown = 0
    /\ pc = "done" => (returned(413) \/ threw)

bothHandlers == {"handleMarkdownRequest", "createMarkdownHandler"}

C16_TimerDisarmedOnReturn ==
  (entry \in bothHandlers /\ pc = "done" /\ calls.setTimeout # << >>) =>
    timer \in {"cleared", "fired"}

givenFetchTimeout(options) ==
  IF options.fetchTimeout = UNSET
    THEN DEFAULT_FETCH_TIMEOUT ELSE options.fetchTimeout

givenMaxAge(options) ==
  IF options.cache.maxAge = UNSET THEN 3600 ELSE options.cache.maxAge

S_public_max_age == <<"p","u","b","l","i","c",","," ","m","a","x","-","a","g","e","=">>
S_s_maxage == <<","," ","s","-","m","a","x","a","g","e","=">>

\* C17: handleMarkdownRequest replaces only unset option fields by their
\* defaults (10 MiB, 30000 ms, 3600 s): the timer is set to fetchTimeout as
\* given, also when that is 0; a body longer than maxRequestSize as given is
\* answered 413, so maxRequestSize 0 rejects every non-empty body; and with
\* cache.enabled the 200 response carries max-age of cache.maxAge as given,
\* 'max-age=0' for 0.
C17_ZeroHonoured ==
  entry = "handleMarkdownRequest" =>
    /\ calls.setTimeout # << >> =>
         calls.setTimeout[1] = givenFetchTimeout(opts)
    /\ (/\ fetchResolved /\ upstreamIsHtml /\ pc = "done"
        /\ upstream.bodyLen > givenMaxSize(opts)) => (returned(413) \/ threw)
    /\ (returned(200) /\ opts.cache.given /\ opts.cache.enabled) =>
         result.cacheControl =
           S_public_max_age \o toString10(givenMaxAge(opts))
             \o S_s_maxage \o toString10(givenMaxAge(opts))

\* what the outer catch of handleMarkdownRequest does with a thrown error
hookOutcome(error) ==
  /\ pc' = "done"
  /\ opts.onError = "unset" => calls'.onError = << >>
  /\ opts.onError # "unset" =>
       calls'.onError = << [error |-> error, request |-> inbound] >>
  /\ opts.onError = "response" => result' = CustomResponse
  /\ opts.onError = "null" =>
       /\ result'.kind = "response" /\ result'.status = 500
       /\ result'.via = "default"

\* C18: when the fetch, the body read or the conversion throws an Error that
\* is no timeout and onError is supplied, handleMarkdownRequest calls the hook
\* exactly once, with that error and the request; a non-null response of the
\* hook is the result, and when the hook returns null the default 500 is.
C18_HookCalledOnce ==
  [][ /\ MwFetchRejects => hookOutcome(NetworkError)
      /\ MwBodyRejects => hookOutcome(BodyError)
      /\ MwConvertThrows => hookOutcome(ConvertError) ]_vars

C18_Witness ==
  /\ entry = "handleMarkdownRequest"
  /\ pc = "done"
  /\ opts.onError = "response"
  /\ calls.convertHtmlToMarkdown = 1
  /\ calls.onError = << [error |-> ConvertError, request |-> inbound] >>
  /\ result = CustomResponse

hookSupplied == opts.onError # "unset"

\* the invocation returned a failure: a response other than the 200 markdown
failed ==
  /\ pc = "done" /\ result.kind = "response"
  /\ (result.status # 200 \/ result.via = "onError")

\* C19 as stated: for every failure kind (403, 404, upstream status, 413,
\* 415, 504, 500) of an invocation with an onError hook, the hook is invoked
\* before the default mapping and its non-null response is returned.
C19_HookBeforeEveryMapping ==
  (entry \in bothHandlers /\ hookSupplied /\ failed) =>
    /\ calls.onError # << >>
    /\ opts.onError = "response" => result = CustomResponse

\* C19, amended: in both handlers the hook is consulted only for a thrown
\* error that is no timeout (the 500 kind), at most once, and then its
\* non-null response is returned; a rejected validation (403), a gate failure
\* (404, upstream status, 415, 413) and a timeout (504) return the default
\* response without the hook being invoked.
C19_HookOnlyForInternal ==
  entry \in bothHandlers =>
    /\ (validation.called /\ ~validation.result.isValid) =>
         (calls.onError = << >> /\ returned(403) /\ result.via = "default")
    /\ timer = "fired" =>
         (calls.onError = << >> /\ returned(504) /\ result.via = "default")
    /\ (fetchResolved /\ (~responseOk(upstream.status) \/ ctNotHtml(upstream))) =>
         (calls.onError = << >> /\ result.via = "default")
    /\ returned(413) => (calls.onError = << >> /\ result.via = "default")
    /\ calls.onError # << >> =>
         /\ Len(calls.onError) = 1
         /\ pc = "done"
         /\ opts.onError = "response" => result = CustomResponse
         /\ opts.onError = "null" => (returned(500) /\ result.via = "default")
    /\ result.via = "onError" => calls.onError # << >>

C19_Witness ==
  /\ entry = "handleMarkdownRequest"
  /\ opts.onError = "response"
  /\ fetchResolved
  /\ returned(404)
  /\ result.via = "default"
  /\ calls.onError = << >>

ThrownErrors == {InvalidUrlError, NetworkError, BodyError, ConvertError}

\* C20: no error response that handleMarkdownRequest builds itself contains
\* the text of an internal error: when the fetch, the body read or the
\* conversion throws Error(m), the body of the response does not contain m.
C20_NoInternalErrorText ==
  (/\ entry = "handleMarkdownRequest"
   /\ pc = "done" /\ result.kind = "response" /\ result.via = "default") =>
    \A e \in ThrownErrors : ~includes(result.body, e.message)

\* C21: API routes are excluded by default: for a path that ends in '.md'
\* and begins with '/api/', handleMarkdownRequest returns null and issues no
\* fetch unless excludeApiRoutes is explicitly false, also when exclude is
\* {} and when no exclude options or no options at all are supplied.
C21_ApiExcludedByDefault ==
  (/\ entry = "handleMarkdownRequest"
   /\ endsWith(inbound.pathname, S_md)
   /\ startsWith(inbound.pathname, S_api)
   /\ opts.exclude.excludeApiRoutes # "false") =>
    /\ fetchLog = << >>
    /\ pc \in {"start", "done"}
    /\ pc = "done" => result = ReturnNull

\* C22: shouldExcludePath is a pure function of its inputs: over every
\* sequence of calls on one exclude configuration (strings and regular
\* expressions with any flags), two calls with the same path return the same
\* result, and no call changes the configuration.
C22_ExcludeIsPure ==
  entry = "shouldExcludePath" =>
    /\ xConfig = xGiven
    /\ \A i, j \in 1..Len(xLog) :
         xLog[i].pathname = xLog[j].pathname => xLog[i].result = xLog[j].result
    /\ \A i \in 1..Len(xLog) :
         xLog[i].result = shouldExcludePath(xLog[i].pathname, xGiven)

eligible ==
  /\ endsWith(inbound.pathname, S_md)
  /\ ~shouldExcludePath(inbound.pathname, opts.exclude)

\* C23: handleMarkdownRequest returns null, having resolved no URL and issued
\* no fetch, exactly when the path does not end with '.md' or
\* shouldExcludePath excludes it; the function made by
\* createMarkdownMiddleware returns NextResponse.next() in exactly those
\* cases and otherwise what handleMarkdownRequest returned.
C23_NullIffIneligible ==
  (entry \in MiddlewareEntries /\ pc # "start") =>
    /\ (result.kind = "null") <=> ~eligible
    /\ ~eligible => /\ targetUrl = BadUrl
                    /\ ~validation.called
                    /\ fetchLog = << >>
    /\ middlewareOut # Pending =>
         /\ (middlewareOut = NextResponseNext) <=> ~eligible
         /\ eligible => middlewareOut = result

C23_Witness ==
  /\ entry = "createMarkdownMiddleware"
  /\ pc = "done"
  /\ endsWith(inbound.pathname, S_md)
  /\ shouldExcludePath(inbound.pathname, opts.exclude)
  /\ result = ReturnNull
  /\ middlewareOut = NextResponseNext

S_baseHrefOpen == <<"<","b","a","s","e"," ","h","r","e","f","=","\"">>

\* the text following the first <base href=" of the output
afterBaseHref(out) ==
  LET n == Len(S_baseHrefOpen)
      i == CHOOSE i \in 1..(Len(out) - n + 1) :
             /\ SubSeq(out, i, i + n - 1) = S_baseHrefOpen
             /\ \A k \in 1..(i - 1) : SubSeq(out, k, k + n - 1) # S_baseHrefOpen
  IN SubSeq(out, i + n, Len(out))

\* the value of that href attribute: the text up to the closing quote
hrefValue(out) == splitFirst(afterBaseHref(out), "\"")

HtmlEntities == {<<"&","a","m","p",";">>, <<"&","l","t",";">>, <<"&","g","t",";">>, <<"&","q","u","o","t",";">>, <<"&","#","3","9",";">>}

\* no '<' or '>' and every '&' opens one of the entities of escapeHtmlAttribute
noUnescaped(v) ==
  /\ \A i \in 1..Len(v) : v[i] \notin {"<", ">"}
  /\ \A i \in 1..Len(v) :
       v[i] = "&" => \E e \in HtmlEntities : startsWith(SubSeq(v, i, Len(v)), e)

\* C25: in all four insertion cases of addBaseTag the href attribute of the
\* base element in the output holds no unescaped '"', '<', '>' or '&': the
\* attribute is closed by the quote that follows the escaped base URL, and
\* its value holds those characters only as entities.
C25_HrefEscaped ==
  (entry = "addBaseTag" /\ abOut # Null) =>
    /\ includes(abOut, S_baseHrefOpen)
    /\ noUnescaped(hrefValue(abOut))
    /\ startsWith(afterBaseHref(abOut), hrefValue(abOut) \o <<"\"", ">">>)

TagNameEnd == {">", "/", " ", "\t", "\n"}

\* the opening tag of the first element called name, as 0-based [index, end)
elementTag(html, name) ==
  LET open == <<"<">> \o name
      closes(i) == {j \in (i + Len(open) + 1)..Len(html) : html[j] = ">"}
      starts == {i \in 0..(Len(html) - Len(open) - 1) :
                   /\ toLowerCase(SubSeq(html, i + 1, i + Len(open))) = open
                   /\ html[i + Len(open) + 1] \in TagNameEnd
                   /\ closes(i) # {}}
  IN IF starts = {} THEN [index |-> -1, end |-> -1]
     ELSE LET i == CHOOSE i \in starts : \A k \in starts : i <= k
          IN [index |-> i,
              end |-> CHOOSE j \in closes(i) : \A k \in closes(i) : j <= k]

\* the markup with the text put in place of [from, to)
spliced(html, from, to, text) ==
  SubSeq(html, 1, from) \o text \o SubSeq(html, to + 1, Len(html))

\* the four-way priority applied to the elements of the markup
baseTagPlaced(html, baseTag) ==
  LET base == elementTag(html, S_base)
      head == elementTag(html, S_head)
      root == elementTag(html, S_html)
  IN IF base.index # -1 THEN spliced(html, base.index, base.end, baseTag)
     ELSE IF head.index # -1 THEN spliced(html, head.end, head.end, baseTag)
     ELSE IF root.index # -1
       THEN spliced(html, root.end, root.end,
                    <<"<","h","e","a","d",">">> \o baseTag \o <<"<","/","h","e","a","d",">">>)
     ELSE baseTag \o html

\* C26: addBaseTag replaces an existing base element, otherwise inserts the
\* base element right after the head opening tag, otherwise inserts
\* <head><base ...></head> right after the html opening tag, otherwise
\* prepends it; the rest of the markup is unchanged and a replaced base
\* element is gone from the output.
C26_FourWayPriority ==
  (entry = "addBaseTag" /\ abOut # Null) =>
    LET baseTag == baseTagOf(escapeHtmlAttribute(abBaseUrl))
        old == elementTag(abHtml, S_base)
        oldTag == SubSeq(abHtml, old.index + 1, old.end)
    IN /\ abOut = baseTagPlaced(abHtml, baseTag)
       /\ (old.index # -1 /\ oldTag # baseTag) => ~includes(abOut, oldTag)

converts(log) == {k \in 1..Len(log) : log[k].kind = "convert"}
customCalls(log) == {k \in converts(log) : log[k].options.given}
defaultCalls(log) == {k \in converts(log) : ~log[k].options.given}

\* C24: a convertHtmlToMarkdown call that supplies options constructs one
\* instance, used by that call only, and leaves the cached default instance
\* variable as it was; every call without options yields the markdown of the
\* default configuration whatever custom calls came before it.
C24_CustomLeavesDefault ==
  entry = "convertHtmlToMarkdown" =>
    /\ \A k \in customCalls(convLog) :
         /\ convLog[k].after = convLog[k].before
         /\ convLog[k].constructed = 1
         /\ services[convLog[k].service] = createTurndownConfig(convLog[k].options)
         /\ \A j \in 1..Len(convLog) :
              /\ j # k => convLog[j].service # convLog[k].service
              /\ convLog[j].after # convLog[k].service
         /\ turndownServiceInstance # convLog[k].service
    /\ \A k \in defaultCalls(convLog) :
         convLog[k].markdown =
           turndown(DefaultTurndownConfig, addBaseTag(S_heading, S_base_url))

C24_Witness ==
  /\ entry = "convertHtmlToMarkdown"
  /\ Len(convLog) >= 2
  /\ \E k \in customCalls(convLog) :
       /\ convLog[k].options.headingStyle = "setext"
       /\ convLog[k].markdown = <<"T">> \o <<"\n">> \o <<"=">>
       /\ \E j \in defaultCalls(convLog) :
            j > k /\ convLog[j].markdown = <<"#"," ","T">>

\* the number of resetTurndownService calls before entry k
epochOf(log, k) == resetsIn(SubSeq(log, 1, k))

\* C28: between two calls of resetTurndownService, over every interleaving
\* of the invocations, the default instance is constructed at most once and
\* every conversion without options uses that instance;
\* resetTurndownService clears the cached instance, so that the next
\* conversion without options constructs exactly one new instance.
C28_DefaultBuiltOncePerEpoch ==
  entry = "convertHtmlToMarkdown" =>
    /\ \A k \in defaultCalls(convLog) :
         LET earlier == {j \in defaultCalls(convLog) :
                           j < k /\ epochOf(convLog, j) = epochOf(convLog, k)}
         IN /\ convLog[k].service = convLog[k].after
            /\ earlier # {} =>
                 /\ convLog[k].constructed = 0
                 /\ \A j \in earlier : convLog[j].service = convLog[k].service
            /\ earlier = {} =>
                 /\ convLog[k].constructed = 1
                 /\ \A j \in 1..(k - 1) : convLog[j].service # convLog[k].service
    /\ \A k \in 1..Len(convLog) :
         convLog[k].kind = "reset" =>
           /\ convLog[k].after = 0
           /\ k = Len(convLog) => turndownServiceInstance = 0

C28_Witness ==
  /\ entry = "convertHtmlToMarkdown"
  /\ Len(convLog) = 3
  /\ convLog[1].kind = "convert" /\ ~convLog[1].options.given
  /\ convLog[2].kind = "reset"
  /\ convLog[3].kind = "convert" /\ ~convLog[3].options.given
  /\ convLog[3].constructed = 1
  /\ convLog[3].service # convLog[1].service
  /\ \E i \in DOMAIN tasks : tasks[i].pc = "done"

\* the value the last entry of that name gives, names compared without case
lastCustom(custom, name) ==
  LET hits == {i \in 1..Len(custom) : toLowerCase(custom[i][1]) = name}
  IN IF hits = {} THEN Null
     ELSE custom[CHOOSE i \in hits : \A j \in hits : j <= i][2]

\* C27 as amended: every 200 response of handleMarkdownRequest carries, for
\* each name of headers.custom, the value of the last entry of that name, and
\* carries Content-Type 'text/markdown; charset=utf-8' and the computed
\* Cache-Control directive unless headers.custom names that header.
C27_CustomHeadersWin ==
  (entry \in MiddlewareEntries /\ result.kind = "response"
     /\ result.status = 200 /\ result.via = "default") =>
    LET h == result.responseHeaders
    IN /\ \A i \in 1..Len(opts.custom) :
            HeadersGet(h, opts.custom[i][1]) =
              lastCustom(opts.custom, toLowerCase(opts.custom[i][1]))
       /\ lastCustom(opts.custom, S_content_type) = Null =>
            HeadersGet(h, S_content_type) = S_text_markdown
       /\ lastCustom(opts.custom, S_cache_control) = Null =>
            HeadersGet(h, S_cache_control) = mwCacheControl(opts)
       /\ DOMAIN h = {S_content_type, S_cache_control}
                       \cup {toLowerCase(opts.custom[i][1]) : i \in 1..Len(opts.custom)}

C27_Witness ==
  /\ entry = "handleMarkdownRequest"
  /\ result.kind = "response" /\ result.status = 200
  /\ opts.cache.given /\ opts.cache.enabled
  /\ lastCustom(opts.custom, S_content_type) = <<"t","e","x","t","/","p","l","a","i","n">>
  /\ HeadersGet(result.responseHeaders, S_content_type) = <<"t","e","x","t","/","p","l","a","i","n">>
  /\ HeadersGet(result.responseHeaders, S_cache_control) = mwCacheControl(opts)

\* C27 as stated: every 200 response of handleMarkdownRequest carries
\* Content-Type 'text/markdown; charset=utf-8', the computed Cache-Control
\* directive, and every entry of headers.custom.
C27_AllThreeCarried ==
  (entry \in MiddlewareEntries /\ result.kind = "response"
     /\ result.status = 200 /\ result.via = "default") =>
    LET h == result.responseHeaders
    IN /\ HeadersGet(h, S_content_type) = S_text_markdown
       /\ HeadersGet(h, S_cache_control) = mwCacheControl(opts)
       /\ \A i \in 1..Len(opts.custom) :
            HeadersGet(h, opts.custom[i][1]) = opts.custom[i][2]

\* C29: an eligible invocation of handleMarkdownRequest cannot wait on the
\* upstream forever: while it awaits the response headers or the response
\* body the fetch timer is armed, so that an upstream that never completes
\* is cancelled after fetchTimeout and the invocation ends with 504.
C29_EveryWaitIsTimed ==
  (entry \in MiddlewareEntries /\ pc \in {"awaitFetch", "awaitBody"}) =>
    timer = "armed"

DefaultStatuses == {200, 403, 404, 413, 415, 500, 504}

\* C30: handleMarkdownRequest never rejects: whatever the fetch, the body
\* read, the conversion or the onError hook does, the invocation ends with
\* null or a response, and a response that is not the hook's has one of the
\* statuses 200, 403, 404, 413, 415, 500, 504 or the upstream's own
\* non-success status.
C30_NeverRejects ==
  (entry \in MiddlewareEntries /\ pc = "done") =>
    /\ result.kind \in {"null", "response"}
    /\ (result.kind = "response" /\ result.via = "default") =>
         \/ result.status \in DefaultStatuses
         \/ /\ fetchResolved
            /\ ~responseOk(upstream.status)
            /\ result.status = upstream.status

====
